---------------------------- MODULE Spec2Model ----------------------------
(***************************************************************************)
(* Digiac-3080 emulator: the CPU of digiac.py (class Digiac3080) and the   *)
(* supervisor shell of sim3080.py (class SimShell), as a state machine.    *)
(*                                                                         *)
(* The Python methods mutate the object `d` statement by statement; here   *)
(* each method is an operator from the machine record before the call to   *)
(* the machine record after it (plus the returned value where there is     *)
(* one).  Python integers are unbounded; every quantity that could exceed  *)
(* 31 bits before it is masked (the shifted magnitude, the 48-bit product  *)
(* and dividend) is computed here in pieces that give the same masked      *)
(* result.                                                                 *)
(***************************************************************************)
EXTENDS Integers, Sequences, FiniteSets, TLC

VARIABLES
    d,           \* the Digiac3080 instance shared by shell and CPU (sim3080.py:23)
    mode,        \* position of the shell: "prompt", "running" (inside the
                 \* while loop of run_virtual_machine) or "crashed"
    held_bpt,    \* run_virtual_machine local: << >> for None, <<p>> otherwise
    num_instr,   \* run_virtual_machine argument: << >> for None, <<n>> otherwise
    instr_cnt,   \* run_virtual_machine local
    trace_pc,    \* run_virtual_machine local pc: d.pc before the last exec
    inst,        \* run_virtual_machine local: the word read at trace_pc
    result,      \* run_virtual_machine local: what the last exec returned
    lines_read   \* number of command lines the shell has read from its input

vars == <<d, mode, held_bpt, num_instr, instr_cnt, trace_pc, inst, result, lines_read>>

(***************************************************************************)
(* Program constants                                                       *)
(***************************************************************************)
MemSize == 4096
MagMask == 16777216          \* 0x00FFFFFF + 1 : magnitudes are taken mod 2^24
SignBit == 16777216          \* 1 << 24

(***************************************************************************)
(* Bounds of the model                                                     *)
(***************************************************************************)
MaxInstr == 5                \* cap on instruction_count in the run loop
MaxStep  == 2                \* the n of "step n"
MaxLines == 3                \* number of command lines the operator types

NoneVal == << >>

Rc(kind, args) == [kind |-> kind, args |-> args]

(***************************************************************************)
(* Memory taps                                                             *)
(***************************************************************************)
InList(x, lst) == \E i \in 1..Len(lst) : lst[i] = x

Say(s, msg) == [s EXCEPT !.tty = Append(@, msg)]

\* rm returns the machine after the tap; rm_val is the word read
rm(s, addr) ==
    IF InList(addr, s.acs)
    THEN [Say(s, Rc("Read Memory address Compare Stop @", <<addr>>))
             EXCEPT !.run = FALSE]
    ELSE s

rm_val(s, addr) == s.mem[addr]

\* mutant: a write to a compare-stop address is dropped
wm_dropped(s, addr, val) ==
    IF InList(addr, s.acs)
    THEN [Say(s, Rc("Write Memory address Compare Stop @", <<addr>>))
             EXCEPT !.run = FALSE]
    ELSE [s EXCEPT !.mem[addr] = val]

wm(s, addr, val) ==
    LET t == IF InList(addr, s.acs)
             THEN [Say(s, Rc("Write Memory address Compare Stop @", <<addr>>))
                      EXCEPT !.run = FALSE]
             ELSE s
    IN  [t EXCEPT !.mem[addr] = val]

(***************************************************************************)
(* Modifier unit                                                           *)
(***************************************************************************)
\* mutant: the right shift stops one place short
ShiftRight_short(val, k) == IF k >= 24 THEN 0 ELSE val \div (2 ^ (k - 1))

\* (val >> k) for 0 <= val < 2^24
ShiftRight(val, k) == IF k >= 24 THEN 0 ELSE val \div (2 ^ k)

\* (val << k) & 0x00FFFFFF for 0 <= val < 2^24
ShiftLeftMasked(val, k) ==
    IF k >= 24 THEN 0 ELSE (val % (2 ^ (24 - k))) * (2 ^ k)

\* mutant: the left shift keeps the bits above the 24-bit field
_shift_nomask(s, val) ==
    IF (s._count \div 32) % 2 = 1
    THEN ShiftRight(val, 64 - s._count) % MagMask
    ELSE IF s._count >= 7 THEN ShiftLeftMasked(val, s._count)
    ELSE val * (2 ^ s._count)

_shift(s, val) ==
    IF (s._count \div 32) % 2 = 1
    THEN ShiftRight(val, 64 - s._count) % MagMask
    ELSE ShiftLeftMasked(val, s._count)

\* mutant: "minus absolute" treated as "absolute"
_sign_abs(s, sv) ==
    LET sgn == IF sv # 0 THEN 1 ELSE 0
        m   == s._opcode % 4
    IN  IF m = 1 THEN 1 - sgn
        ELSE IF m = 2 THEN 0
        ELSE IF m = 3 THEN 0
        ELSE sgn

_sign(s, sv) ==
    LET sgn == IF sv # 0 THEN 1 ELSE 0
        m   == s._opcode % 4
    IN  IF m = 1 THEN 1 - sgn
        ELSE IF m = 2 THEN 0
        ELSE IF m = 3 THEN 1
        ELSE sgn

\* _arg_fetch: the machine after the read, and the (sign, magnitude) pair
_arg_fetch(s) == rm(s, s._addr)

_arg_fetch_val(s) ==
    LET wd == rm_val(s, s._addr)
    IN  <<_sign(s, wd \div SignBit), _shift(s, wd % MagMask)>>

\* mutant: the sign bit is left out of the stored word
_store_reg_nosign(s, addr, reg) ==
    LET sgn == _sign(s, reg[1])
        val == _shift(s, reg[2])
    IN  [st |-> wm(s, addr, val),
         rc |-> Rc("[addr] <-", <<addr, sgn, val>>)]

_store_reg(s, addr, reg) ==
    LET sgn == _sign(s, reg[1])
        val == _shift(s, reg[2])
    IN  [st |-> wm(s, addr, sgn * SignBit + val),
         rc |-> Rc("[addr] <-", <<addr, sgn, val>>)]


(***************************************************************************)
(* Instructions.  Each returns the machine after the instruction, the      *)
(* string it returns (rc) and the exception that escapes it, if any.       *)
(***************************************************************************)
Ret(st, rc) == [st |-> st, rc |-> rc, exc |-> "none"]

_inst_hlt(s) ==
    LET t == [s EXCEPT !.run = FALSE]
    IN  Ret(t, Rc("HALTED at", <<t.pc>>))

\* val & a for 24-bit non-negative operands, bit by bit
RECURSIVE BitAnd(_, _, _)
BitAnd(x, y, n) ==
    IF n = 0 THEN 0
    ELSE (x % 2) * (y % 2) + 2 * BitAnd(x \div 2, y \div 2, n - 1)

_inst_and(s) ==
    LET arg == _arg_fetch_val(s)
        t   == _arg_fetch(s)
        sgn == IF arg[1] # 0 THEN s.a[1] ELSE 0
        val == BitAnd(arg[2], s.a[2], 24)
    IN  Ret([t EXCEPT !.a = <<sgn, val>>], Rc("A      <- ", <<sgn, val>>))

_inst_cla(s) ==
    LET arg == _arg_fetch_val(s)
        t   == _arg_fetch(s)
    IN  Ret([t EXCEPT !.a = arg], Rc("A      <- ", arg))

\* mutant: a zero sum keeps the prior sign of A
_inst_add_keepsign(s) ==
    LET acc0  == IF s.a[1] = 0 THEN s.a[2] ELSE -s.a[2]
        arg   == _arg_fetch_val(s)
        t     == _arg_fetch(s)
        accum == acc0 + (IF arg[1] = 0 THEN arg[2] ELSE -arg[2])
        sgn   == IF accum < 0 \/ (accum = 0 /\ s.a[1] = 1) THEN 1 ELSE 0
        val   == (IF accum < 0 THEN -accum ELSE accum) % MagMask
    IN  Ret([t EXCEPT !.a = <<sgn, val>>], Rc("A      <- ", <<sgn, val>>))

_inst_add(s) ==
    LET acc0  == IF s.a[1] = 0 THEN s.a[2] ELSE -s.a[2]
        arg   == _arg_fetch_val(s)
        t     == _arg_fetch(s)
        accum == acc0 + (IF arg[1] = 0 THEN arg[2] ELSE -arg[2])
        sgn   == IF accum < 0 THEN 1 ELSE 0
        val   == (IF sgn = 1 THEN -accum ELSE accum) % MagMask
    IN  Ret([t EXCEPT !.a = <<sgn, val>>], Rc("A      <- ", <<sgn, val>>))

\* mutant: the carry out of the low 24 bits is dropped
Product48_nocarry(x, y) ==
    LET xh  == x \div 4096
        xl  == x % 4096
        yh  == y \div 4096
        yl  == y % 4096
        mid == xh * yl + xl * yh
        low == xl * yl + (mid % 4096) * 4096
        hi  == xh * yh + (mid \div 4096)
    IN  <<hi % 16777216, low % 16777216>>

\* The 48-bit product x * y of two 24-bit magnitudes as <<accum >> 24 & mask,
\* accum & mask>>, from the four products of their 12-bit halves.
Product48(x, y) ==
    LET xh  == x \div 4096
        xl  == x % 4096
        yh  == y \div 4096
        yl  == y % 4096
        mid == xh * yl + xl * yh
        low == xl * yl + (mid % 4096) * 4096
        hi  == xh * yh + (mid \div 4096) + (low \div MagMask)
    IN  <<hi % MagMask, low % MagMask>>

_inst_mlt(s) ==
    LET sa   == s.a[1]
        arg  == _arg_fetch_val(s)
        t    == _arg_fetch(s)
        prod == Product48(s.a[2], arg[2])
        sgn  == IF (sa # 0) = (arg[1] # 0) THEN 0 ELSE 1
    IN  Ret([t EXCEPT !.a = <<sgn, prod[1]>>, !.b = <<sgn, prod[2]>>],
            Rc("AB: ", <<sgn, prod[1], prod[2]>>))

\* (r << 6n) // dv & mask and (r << 6n) % dv for r < dv, six bits at a time:
\* <<quotient, remainder>>
RECURSIVE LongDiv(_, _, _, _)
\* mutant: each quotient digit is rounded up
LongDiv_roundup(r, dv, q, n) ==
    IF n = 0 THEN <<q, r>>
    ELSE LongDiv((r * 64) % dv, dv, q * 64 + ((r * 64 + 63) \div dv), n - 1)

LongDiv(r, dv, q, n) ==
    IF n = 0 THEN <<q, r>>
    ELSE LongDiv((r * 64) % dv, dv, q * 64 + ((r * 64) \div dv), n - 1)

\* mutant: the divide-by-zero stop clears A
_inst_div_clear(s) ==
    LET sd       == s.a[1]
        dividend == s.a[2]
        arg      == _arg_fetch_val(s)
        t        == _arg_fetch(s)
        divisor  == arg[2]
        sgn      == IF (sd # 0) = (arg[1] # 0) THEN 0 ELSE 1
    IN  IF divisor = 0
        THEN Ret([t EXCEPT !.run = FALSE, !.a = <<0, 0>>], Rc("Divide by Zero Stop", << >>))
        ELSE LET qr   == LongDiv(dividend % divisor, divisor, 0, 4)
                 quot == qr[1] % MagMask
                 remd == qr[2] % MagMask
             IN  Ret([t EXCEPT !.a = <<sgn, remd>>, !.b = <<sgn, quot>>],
                     Rc("AB: ", <<sgn, remd, quot>>))

_inst_div(s) ==
    LET sd       == s.a[1]
        dividend == s.a[2]
        arg      == _arg_fetch_val(s)
        t        == _arg_fetch(s)
        divisor  == arg[2]
        sgn      == IF (sd # 0) = (arg[1] # 0) THEN 0 ELSE 1
    IN  IF divisor = 0
        THEN Ret([t EXCEPT !.run = FALSE], Rc("Divide by Zero Stop", << >>))
        ELSE LET qr   == LongDiv(dividend % divisor, divisor, 0, 4)
                 quot == qr[1] % MagMask
                 remd == qr[2] % MagMask
             IN  Ret([t EXCEPT !.a = <<sgn, remd>>, !.b = <<sgn, quot>>],
                     Rc("AB: ", <<sgn, remd, quot>>))

_inst_sta(s) ==
    LET r == _store_reg(s, s._addr, s.a)
    IN  Ret(r.st, r.rc)

_inst_stb(s) ==
    LET r == _store_reg(s, s._addr, s.b)
    IN  Ret(r.st, r.rc)

_inst_jmp(s) ==
    LET t == [s EXCEPT !.pc = s._addr]
    IN  Ret(t, Rc("PC     <-      ", <<t.pc>>))

_inst_br_minus(s) ==
    IF s.a[1] # 0 /\ s.a[2] # 0 THEN _inst_jmp(s) ELSE Ret(s, Rc("no branch", << >>))

_inst_br_plus(s) ==
    IF ~(s.a[1] # 0) /\ s.a[2] # 0 THEN _inst_jmp(s) ELSE Ret(s, Rc("no branch", << >>))

\* mutant: BRZ branches on positive zero only
_inst_brz_poszero(s) ==
    IF s.a[2] # 0 \/ s.a[1] # 0 THEN Ret(s, Rc("no branch", << >>)) ELSE _inst_jmp(s)

_inst_brz(s) ==
    IF s.a[2] # 0 THEN Ret(s, Rc("no branch", << >>)) ELSE _inst_jmp(s)


(***************************************************************************)
(* Character tables.  Glyphs outside ASCII and control characters are      *)
(* written by name.  Position i + 1 holds the glyph of Digiac code i.      *)
(***************************************************************************)
TaGlyphs ==
    << "0", "1", "2", "3", "4", "5", "6", "7",
       "8", "9", "-", ";", "/", "!", "'", "=",
       " ", "A", "B", "C", "D", "E", "F", "G",
       "H", "I", "J", "K", "L", "M", ",", "<LF>",
       "<HT>", "N", "O", "P", "Q", "R", "S", "T",
       "U", "V", "W", "X", "Y", "Z", ".", "<NUL>",
       ")", "<+->", "@", "#", "$", "%", " ", "&",
       "*", "(", "_", ":", "?", "<deg>", "<quote>", "+" >>

_ta_char(c) == TaGlyphs[c + 1]

\* the keys of the _tichars dictionary, in the order of their values 0..63
TiKeys ==
    << "0", "1", "2", "3", "4", "5", "6", "7",
       "8", "9", "-", ";", "/", "!", "'", "=",
       " ", "A", "B", "C", "D", "E", "F", "G",
       "H", "I", "J", "K", "L", "M", ",", "<LF>",
       "<HT>", "N", "O", "P", "Q", "R", "S", "T",
       "U", "V", "W", "X", "Y", "Z", ".", "<NUL>",
       ")", "<+->", "@", "#", "$", "%", "<cent>", "&",
       "*", "(", "_", ":", "?", "<deg>", "<quote>", "+" >>

InTichars(c) == \E i \in 1..64 : TiKeys[i] = c

_tichars(c) == (CHOOSE i \in 1..64 : TiKeys[i] = c) - 1

LowerCase == << "a", "b", "c", "d", "e", "f", "g", "h", "i", "j", "k", "l", "m",
                "n", "o", "p", "q", "r", "s", "t", "u", "v", "w", "x", "y", "z" >>
UpperCase == << "A", "B", "C", "D", "E", "F", "G", "H", "I", "J", "K", "L", "M",
                "N", "O", "P", "Q", "R", "S", "T", "U", "V", "W", "X", "Y", "Z" >>

\* str.upper() of a one-character string
Upper(c) ==
    IF \E i \in 1..26 : LowerCase[i] = c
    THEN UpperCase[CHOOSE i \in 1..26 : LowerCase[i] = c]
    ELSE c

CtrlC == "<ETX>"             \* chr(3)

(***************************************************************************)
(* TA - Type Alpha                                                         *)
(***************************************************************************)
\* mutant: code 0o66 prints its blank
WordGlyphs_blank(wd) ==
    LET c(i) == (wd \div (64 ^ (3 - i))) % 64
        g(i) == << _ta_char(c(i)) >>
    IN  g(0) \o g(1) \o g(2) \o g(3)

\* the four characters of one word, most significant first, without code 0o66
WordGlyphs(wd) ==
    LET c(i) == (wd \div (64 ^ (3 - i))) % 64
        g(i) == IF c(i) # 54 THEN << _ta_char(c(i)) >> ELSE << >>
    IN  g(0) \o g(1) \o g(2) \o g(3)

\* n words remain to be typed; buf is what has been collected
RECURSIVE _ta_loop(_, _, _)
_ta_loop(s, n, buf) ==
    IF n = 0 THEN [st |-> s, buf |-> buf]
    ELSE LET t  == rm(s, s._addr)
             wd == rm_val(s, s._addr)
         IN  _ta_loop([t EXCEPT !._addr = (s._addr + 1) % 4096],
                      n - 1, buf \o WordGlyphs(wd))

_inst_ta(s) ==
    LET r == _ta_loop(s, 64 - s._count, << >>)
        t == Say(r.st, [kind |-> "TA", args |-> r.buf])
    IN  Ret(t, Rc("next addr:     ", <<t._addr>>))

(***************************************************************************)
(* RT - Read Tape.  d.ptr is << >> (None) or <<f>> with f the file: its   *)
(* bytes, its read position and whether it is open.                        *)
(***************************************************************************)
\* one word from the tape: the bytes are f.data, f.pos have been read.
\* sgn is << >> while the sign byte has not been met.
\* file.close(): the handle stays, the stream is no longer readable
close(f) == [f EXCEPT !.open = FALSE]

RECURSIVE _do_rt_loop(_, _, _, _)
\* mutant: the sign is taken from the byte as punched, 0x40 included
_do_rt_loop_rawsign(f, sgn, val, num_cols) ==
    IF num_cols <= 0
    THEN [exc |-> "none", f |-> f, wd |-> sgn[1] + val]
    ELSE IF f.pos >= Len(f.data)
    THEN [exc |-> "EOFError", f |-> f, wd |-> 0]
    ELSE LET c0 == f.data[f.pos + 1]
             g  == [f EXCEPT !.pos = f.pos + 1]
         IN  IF c0 > 64 THEN [exc |-> "RuntimeError", f |-> g, wd |-> c0]
             ELSE IF c0 = 0 THEN _do_rt_loop(g, sgn, val, num_cols)
             ELSE LET c == IF c0 = 64 THEN 0 ELSE c0
                  IN  IF sgn = << >>
                      THEN _do_rt_loop(g, << IF c0 # 0 THEN SignBit ELSE 0 >>,
                                       val, num_cols)
                      ELSE _do_rt_loop(g, sgn, val * 64 + c, num_cols - 1)

\* mutant: a blank column inside a word is read as the digit 0
_do_rt_loop_blankdigit(f, sgn, val, num_cols) ==
    IF num_cols <= 0
    THEN [exc |-> "none", f |-> f, wd |-> sgn[1] + val]
    ELSE IF f.pos >= Len(f.data)
    THEN [exc |-> "EOFError", f |-> f, wd |-> 0]
    ELSE LET c0 == f.data[f.pos + 1]
             g  == [f EXCEPT !.pos = f.pos + 1]
         IN  IF c0 > 64 THEN [exc |-> "RuntimeError", f |-> g, wd |-> c0]
             ELSE IF c0 = 0 /\ sgn = << >> THEN _do_rt_loop(g, sgn, val, num_cols)
             ELSE LET c == IF c0 = 64 THEN 0 ELSE c0
                  IN  IF sgn = << >>
                      THEN _do_rt_loop(g, << IF c # 0 THEN SignBit ELSE 0 >>,
                                       val, num_cols)
                      ELSE _do_rt_loop(g, sgn, val * 64 + c, num_cols - 1)

_do_rt_loop(f, sgn, val, num_cols) ==
    IF num_cols <= 0
    THEN [exc |-> "none", f |-> f, wd |-> sgn[1] + val]
    ELSE IF f.pos >= Len(f.data)
    THEN [exc |-> "EOFError", f |-> f, wd |-> 0]
    ELSE LET c0 == f.data[f.pos + 1]
             g  == [f EXCEPT !.pos = f.pos + 1]
         IN  IF c0 > 64 THEN [exc |-> "RuntimeError", f |-> g, wd |-> c0]
             ELSE IF c0 = 0 THEN _do_rt_loop(g, sgn, val, num_cols)
             ELSE LET c == IF c0 = 64 THEN 0 ELSE c0
                  IN  IF sgn = << >>
                      THEN _do_rt_loop(g, << IF c # 0 THEN SignBit ELSE 0 >>,
                                       val, num_cols)
                      ELSE _do_rt_loop(g, sgn, val * 64 + c, num_cols - 1)

\* the machine after the call (the file advanced, or closed and detached at
\* its end), the exception raised and the word returned
\* mutant: an invalid byte is taken for the end of the tape
_do_rt_lenient(s) ==
    LET r == _do_rt_loop(s.ptr[1], << >>, 0, 4)
    IN  [st  |-> IF r.exc # "none"
                 THEN [[s EXCEPT !.ptr = << close(r.f) >>] EXCEPT !.ptr = << >>]
                 ELSE [s EXCEPT !.ptr = << r.f >>],
         exc |-> IF r.exc # "none" THEN "EOFError" ELSE "none",
         wd  |-> r.wd]

\* mutant: at the end of the tape the file is closed and the handle kept
_do_rt_keep(s) ==
    LET r == _do_rt_loop(s.ptr[1], << >>, 0, 4)
    IN  [st  |-> IF r.exc = "EOFError"
                 THEN [s EXCEPT !.ptr = << close(r.f) >>]
                 ELSE [s EXCEPT !.ptr = << r.f >>],
         exc |-> r.exc,
         wd  |-> r.wd]

\* at the end of the tape: self.ptr.close(), then self.ptr = None
_do_rt(s) ==
    LET r == _do_rt_loop(s.ptr[1], << >>, 0, 4)
    IN  [st  |-> IF r.exc = "EOFError"
                 THEN [[s EXCEPT !.ptr = << close(r.f) >>] EXCEPT !.ptr = << >>]
                 ELSE [s EXCEPT !.ptr = << r.f >>],
         exc |-> r.exc,
         wd  |-> r.wd]

RECURSIVE _rt_loop(_, _)
\* mutant: the end of the tape clears the run flag
_rt_loop_eofstop(s, n) ==
    IF n = 0 THEN s
    ELSE LET r == _do_rt(s)
         IN  IF r.exc = "EOFError" THEN [r.st EXCEPT !.run = FALSE]
             ELSE IF r.exc = "RuntimeError"
             THEN [Say(r.st, Rc("Unexpected PT character", <<r.wd, r.st.ptr[1].pos>>))
                      EXCEPT !.run = FALSE]
             ELSE _rt_loop([wm(r.st, s._addr, r.wd)
                               EXCEPT !._addr = (s._addr + 1) % 4096], n - 1)

_rt_loop(s, n) ==
    IF n = 0 THEN s
    ELSE LET r == _do_rt(s)
         IN  IF r.exc = "EOFError" THEN r.st
             ELSE IF r.exc = "RuntimeError"
             THEN [Say(r.st, Rc("Unexpected PT character", <<r.wd, r.st.ptr[1].pos>>))
                      EXCEPT !.run = FALSE]
             ELSE _rt_loop([wm(r.st, s._addr, r.wd)
                               EXCEPT !._addr = (s._addr + 1) % 4096], n - 1)

_inst_rt(s) ==
    IF s.ptr # << >>
    THEN LET t == _rt_loop(s, 64 - s._count)
         IN  Ret(t, Rc("next addr:     ", <<t._addr>>))
    ELSE Ret([s EXCEPT !.run = FALSE], Rc("No Tape in PTReader", << >>))

(***************************************************************************)
(* TI - Type In.  keys is what the operator types while the instruction    *)
(* waits on the keyboard; a call that finds keys exhausted is still        *)
(* waiting (blocked).                                                      *)
(***************************************************************************)
\* [code, keys left, tty, exc]: exc is "none", "KeyboardInterrupt" or "blocked"
RECURSIVE _ti_char(_, _)
\* mutant: a character outside the table is taken as code 0
_ti_char_countall(s, keys) ==
    IF keys = << >> THEN [exc |-> "blocked", st |-> s, keys |-> keys, code |-> 0]
    ELSE LET c == Upper(Head(keys))
         IN  IF c = CtrlC
             THEN [exc |-> "KeyboardInterrupt", st |-> s, keys |-> Tail(keys), code |-> 0]
             ELSE IF InTichars(c)
             THEN [exc |-> "none", st |-> Say(s, Rc("echo", <<_tichars(c)>>)),
                   keys |-> Tail(keys), code |-> _tichars(c)]
             ELSE [exc |-> "none", st |-> Say(s, Rc("bell", << >>)),
                   keys |-> Tail(keys), code |-> 0]

_ti_char(s, keys) ==
    IF keys = << >> THEN [exc |-> "blocked", st |-> s, keys |-> keys, code |-> 0]
    ELSE LET c == Upper(Head(keys))
         IN  IF c = CtrlC
             THEN [exc |-> "KeyboardInterrupt", st |-> s, keys |-> Tail(keys), code |-> 0]
             ELSE IF InTichars(c)
             THEN [exc |-> "none", st |-> Say(s, Rc("echo", <<_tichars(c)>>)),
                   keys |-> Tail(keys), code |-> _tichars(c)]
             ELSE _ti_char(Say(s, Rc("bell", << >>)), Tail(keys))

\* idx runs over range(n); wd is the word being packed
RECURSIVE _ti_loop(_, _, _, _, _)
_ti_loop(s, keys, idx, n, wd) ==
    IF idx = n THEN [exc |-> "none", st |-> s, keys |-> keys]
    ELSE LET r  == _ti_char(s, keys)
             w  == wd * 64 + r.code
         IN  IF r.exc # "none" THEN [exc |-> r.exc, st |-> r.st, keys |-> r.keys]
             ELSE IF idx % 4 = 3
             THEN _ti_loop([wm(r.st, r.st._addr, w)
                               EXCEPT !._addr = (r.st._addr + 1) % 4096],
                           r.keys, idx + 1, n, 0)
             ELSE _ti_loop(r.st, r.keys, idx + 1, n, w)

\* mutant: TI clears the run flag itself when Control-C ends it
_inst_ti_catch(s, keys) ==
    LET r == _ti_loop(s, keys, 0, (64 - s._count) * 4, 0)
    IN  [st |-> IF r.exc = "KeyboardInterrupt" THEN [r.st EXCEPT !.run = FALSE] ELSE r.st,
         rc |-> Rc("next addr:     ", <<r.st._addr>>),
         exc |-> r.exc, keys |-> r.keys]

\* also returns the keys left untyped-into (none when the instruction is the
\* one that consumed them all)
_inst_ti(s, keys) ==
    LET r == _ti_loop(s, keys, 0, (64 - s._count) * 4, 0)
    IN  [st |-> r.st, rc |-> Rc("next addr:     ", <<r.st._addr>>),
         exc |-> r.exc, keys |-> r.keys]


(***************************************************************************)
(* Decode and dispatch                                                     *)
(***************************************************************************)
Opcode(instr) == (instr \div 262144) % 64      \* (instr >> 18) & 0o77
Count(instr)  == (instr \div 4096) % 64        \* (instr >> 12) & 0o77
Addr(instr)   == instr % 4096                  \* instr & 0o7777

\* mutant: opcode 50 (Type Octal) counted as implemented
_implemented_with_50 ==
    {0} \cup (4..31) \cup (36..39) \cup {40, 44, 48, 51}

\* the keys of the _implemented_instructions dictionary
_implemented_instructions ==
    {0} \cup (4..31) \cup (36..39) \cup {44, 48, 51}

Dispatch(s, keys) ==
    LET op == s._opcode
        K(r) == [st |-> r.st, rc |-> r.rc, exc |-> r.exc, keys |-> keys]
    IN  IF op = 0 THEN K(_inst_hlt(s))
        ELSE IF op \in 4..7 THEN K(_inst_and(s))
        ELSE IF op \in 8..11 THEN K(_inst_cla(s))
        ELSE IF op \in 12..15 THEN K(_inst_add(s))
        ELSE IF op \in 16..19 THEN K(_inst_mlt(s))
        ELSE IF op \in 20..23 THEN K(_inst_div(s))
        ELSE IF op \in 24..27 THEN K(_inst_sta(s))
        ELSE IF op \in 28..31 THEN K(_inst_stb(s))
        ELSE IF op = 36 THEN K(_inst_jmp(s))
        ELSE IF op = 37 THEN K(_inst_br_minus(s))
        ELSE IF op = 38 THEN K(_inst_br_plus(s))
        ELSE IF op = 39 THEN K(_inst_brz(s))
        ELSE IF op = 44 THEN K(_inst_ta(s))
        ELSE IF op = 48 THEN K(_inst_rt(s))
        ELSE _inst_ti(s, keys)

\* mutant: the instruction counter is left alone
fetch_decode_nocount(s) ==
    LET instr == rm_val(s, s.pc)
        t0    == rm(s, s.pc)
    IN  [t0 EXCEPT !.pc = (s.pc + 1) % 4096,
                   !._opcode = Opcode(instr),
                   !._count = Count(instr),
                   !._addr = Addr(instr)]

\* exec, from the fetch to the end of the decode
fetch_decode(s) ==
    LET instr == rm_val(s, s.pc)
        t0    == rm(s, s.pc)
    IN  [t0 EXCEPT !.pc = (s.pc + 1) % 4096,
                   !.instruction_count = @ + 1,
                   !._opcode = Opcode(instr),
                   !._count = Count(instr),
                   !._addr = Addr(instr)]

\* mutant: the breakpoint list is consulted for the address after PC
at_breakpoint_next(s) == InList((s.pc + 1) % 4096, s.bpt)

\* whether exec stops before the fetch
at_breakpoint(s) == InList(s.pc, s.bpt)

\* execute one instruction
exec(s, keys) ==
    LET pc == s.pc
    IN  IF at_breakpoint(s)
        THEN [st |-> [s EXCEPT !.run = FALSE], rc |-> Rc("Breakpoint at", <<pc>>),
              exc |-> "none", keys |-> keys]
        ELSE LET instr == rm_val(s, pc)
                 t     == fetch_decode(s)
             IN  IF t._opcode \in _implemented_instructions
                 THEN Dispatch(t, keys)
                 ELSE [st |-> [t EXCEPT !.run = FALSE],
                       rc |-> Rc("Invalid or Unknown OPCODE", <<instr, pc>>),
                       exc |-> "none", keys |-> keys]


(***************************************************************************)
(* The shell (sim3080.py).  A command argument that the code parses with   *)
(* int(.., 8) is given as the parsed integer; a deposit's first argument   *)
(* is the text typed (txt) with its octal value (oct, -1 when the text is  *)
(* no octal number), its second argument is a sign prefix and the octal    *)
(* digits' value.                                                          *)
(***************************************************************************)
Quiet(s) == [s EXCEPT !.tty = << >>]

\* str.lower() of the register names
Lower(txt) ==
    IF txt = "A" THEN "a"
    ELSE IF txt = "B" THEN "b"
    ELSE IF txt \in {"PC", "Pc", "pC"} THEN "pc"
    ELSE txt

\* list.remove(x): the first occurrence goes
RECURSIVE Remove(_, _)
Remove(lst, x) ==
    IF lst = << >> THEN << >>
    ELSE IF Head(lst) = x THEN Tail(lst)
    ELSE << Head(lst) >> \o Remove(Tail(lst), x)

\* the machine after "deposit arg0 arg1" (unchanged when the command is refused)
do_deposit(s, arg0, arg1) ==
    LET sgn0  == IF arg1.neg THEN 1 ELSE 0
        val0  == IF arg1.neg THEN -arg1.mag ELSE arg1.mag
        inrng == -MagMask < val0 /\ val0 < MagMask
        ispc  == arg0.txt = "pc"
        pcok  == 0 <= val0 /\ val0 <= 4095 /\ sgn0 = 0
        sgn   == IF ~ispc /\ val0 < 0 THEN 1 ELSE sgn0
        val   == IF ~ispc /\ val0 < 0 THEN (-val0) % MagMask ELSE val0
        adr   == Lower(arg0.txt)
    IN  IF ~inrng \/ (ispc /\ ~pcok) THEN s
        ELSE IF adr = "a" THEN [s EXCEPT !.a = <<sgn, val>>]
        ELSE IF adr = "b" THEN [s EXCEPT !.b = <<sgn, val>>]
        ELSE IF adr = "pc" THEN [s EXCEPT !.pc = val]
        ELSE IF ~(0 <= arg0.oct /\ arg0.oct <= 4095) THEN s
        ELSE wm(s, arg0.oct, sgn * SignBit + val)

\* the shell reads one more command line
ReadLine ==
    /\ mode = "prompt"
    /\ lines_read < MaxLines
    /\ lines_read' = lines_read + 1

ShellIdle == UNCHANGED <<mode, held_bpt, num_instr, instr_cnt, trace_pc, inst, result>>

DoDeposit(arg0, arg1) ==
    /\ ReadLine
    /\ d' = do_deposit(Quiet(d), arg0, arg1)
    /\ ShellIdle

\* mutant: the pass counter of the previous command is kept
run_virtual_machine_stale(s, n) ==
    /\ instr_cnt' = instr_cnt
    /\ num_instr' = n
    /\ IF InList(s.pc, s.bpt)
       THEN /\ held_bpt' = << s.pc >>
            /\ d' = [s EXCEPT !.run = TRUE, !.bpt = Remove(s.bpt, s.pc)]
       ELSE /\ held_bpt' = << >>
            /\ d' = [s EXCEPT !.run = TRUE]
    /\ mode' = "running"
    /\ UNCHANGED <<trace_pc, inst, result>>

\* the first part of run_virtual_machine, up to the while loop
run_virtual_machine(s, n) ==
    /\ instr_cnt' = 0
    /\ num_instr' = n
    /\ IF InList(s.pc, s.bpt)
       THEN /\ held_bpt' = << s.pc >>
            /\ d' = [s EXCEPT !.run = TRUE, !.bpt = Remove(s.bpt, s.pc)]
       ELSE /\ held_bpt' = << >>
            /\ d' = [s EXCEPT !.run = TRUE]
    /\ mode' = "running"
    /\ UNCHANGED <<trace_pc, inst, result>>

\* "step" (args = << >>) or "step n" (args = <<n>>)
DoStep(args) ==
    /\ ReadLine
    /\ IF args # << >> /\ ~(args[1] > 0)
       THEN d' = Quiet(d) /\ ShellIdle
       ELSE run_virtual_machine(Quiet(d), IF args # << >> THEN args ELSE << 1 >>)

\* "go" (args = << >>) or "go addr" (args = <<addr>>)
DoGo(args) ==
    /\ ReadLine
    /\ IF args # << >> /\ ~(0 <= args[1] /\ args[1] <= 4095)
       THEN d' = Quiet(d) /\ ShellIdle
       ELSE run_virtual_machine(
                IF args # << >> THEN [Quiet(d) EXCEPT !.pc = args[1]] ELSE Quiet(d),
                << >>)

\* mutant: the held breakpoint is dropped
rearm_forget(s, held) == s

\* the held breakpoint goes back on the list after the first exec
rearm(s, held) ==
    IF held # << >> THEN [s EXCEPT !.bpt = Append(@, held[1])] ELSE s

\* One pass through the body of the while loop of run_virtual_machine; keys
\* is what is typed while the instruction waits on the keyboard.  The loop
\* is left (back to the prompt) when d.run is false after the pass.  A
\* program counter outside memory makes d.rm raise IndexError, which nothing
\* catches: the shell dies.
LoopIter(keys) ==
    /\ mode = "running"
    /\ d.instruction_count < MaxInstr
    /\ IF d.pc >= MemSize
       THEN /\ mode' = "crashed"
            /\ UNCHANGED <<d, held_bpt, num_instr, instr_cnt, trace_pc, inst, result>>
            /\ UNCHANGED lines_read
       ELSE LET s0   == rm(Quiet(d), d.pc)
                r    == exec(s0, keys)
                intr == r.exc = "KeyboardInterrupt"
                s1   == IF intr THEN [r.st EXCEPT !.run = FALSE] ELSE r.st
                cnt  == IF intr THEN instr_cnt ELSE instr_cnt + 1
                s2   == rearm(s1, held_bpt)
                s3   == IF num_instr # << >> /\ cnt >= num_instr[1]
                        THEN [s2 EXCEPT !.run = FALSE]
                        ELSE s2
            IN  /\ r.exc # "blocked"
                /\ r.keys = << >>
                /\ trace_pc' = d.pc
                /\ inst' = rm_val(d, d.pc)
                /\ result' = IF intr THEN Rc("Control-C", << >>) ELSE r.rc
                /\ instr_cnt' = cnt
                /\ held_bpt' = << >>
                /\ d' = s3
                /\ mode' = IF s3.run THEN "running" ELSE "prompt"
                /\ UNCHANGED <<num_instr, lines_read>>

\* mutant: the address is appended whether or not it is on the list
do_break_always(s, addr) ==
    IF ~(0 <= addr /\ addr <= 4095) THEN s
    ELSE [s EXCEPT !.bpt = Append(@, addr)]

do_break(s, addr) ==
    IF ~(0 <= addr /\ addr <= 4095) THEN s
    ELSE IF ~InList(addr, s.bpt) THEN [s EXCEPT !.bpt = Append(@, addr)]
    ELSE s

do_clear(s, addr) ==
    IF ~(0 <= addr /\ addr <= 4095) THEN s
    ELSE IF InList(addr, s.bpt) THEN [s EXCEPT !.bpt = Remove(@, addr)]
    ELSE s

do_acstop(s, addr) ==
    IF ~(0 <= addr /\ addr <= 4095) THEN s
    ELSE IF ~InList(addr, s.acs) THEN [s EXCEPT !.acs = Append(@, addr)]
    ELSE s

do_aclear(s, addr) ==
    IF ~(0 <= addr /\ addr <= 4095) THEN s
    ELSE IF InList(addr, s.acs) THEN [s EXCEPT !.acs = Remove(@, addr)]
    ELSE s

DoBreak(addr)  == ReadLine /\ d' = do_break(Quiet(d), addr) /\ ShellIdle
DoClear(addr)  == ReadLine /\ d' = do_clear(Quiet(d), addr) /\ ShellIdle
DoAcstop(addr) == ReadLine /\ d' = do_acstop(Quiet(d), addr) /\ ShellIdle
DoAclear(addr) == ReadLine /\ d' = do_aclear(Quiet(d), addr) /\ ShellIdle

\* "attach ptr <file>": the file opens, read from offset 0
\* a tape in the reader is closed first; the file named is opened
do_attach(s, data) ==
    LET t == IF s.ptr # << >> THEN [s EXCEPT !.ptr = << close(@[1]) >>] ELSE s
    IN  [t EXCEPT !.ptr = << [data |-> data, pos |-> 0, open |-> TRUE] >>]

do_detach(s) ==
    LET t == IF s.ptr # << >> THEN [s EXCEPT !.ptr = << close(@[1]) >>] ELSE s
    IN  [t EXCEPT !.ptr = << >>]

DoAttach(data) == ReadLine /\ d' = do_attach(Quiet(d), data) /\ ShellIdle
DoDetach       == ReadLine /\ d' = do_detach(Quiet(d)) /\ ShellIdle


(***************************************************************************)
(* Memory images.  Core memory holds arbitrary words at power-on           *)
(* (digiac.py:46-49): Fill is one such content, with both signs and every  *)
(* opcode; an image is Fill with a program and its data at some addresses. *)
(***************************************************************************)
Word(sgn, mag) == sgn * SignBit + mag
Instr(op, count, addr) == op * 262144 + count * 4096 + addr

Fill(addr) == ((addr * 4099 + 17) % 8192) * 4096 + addr

RandomImage == [x \in 0..(MemSize - 1) |-> Fill(x)]

Image(patch) == patch @@ RandomImage

Machine(mem, pc, a, b) ==
    [mem |-> mem, pc |-> pc, a |-> a, b |-> b, instruction_count |-> 0,
     ptr |-> << >>, bpt |-> << >>, acs |-> << >>, run |-> TRUE,
     _opcode |-> 0, _count |-> 0, _addr |-> 0, tty |-> << >>]

ShellInit ==
    /\ mode = "prompt"
    /\ held_bpt = << >>
    /\ num_instr = << >>
    /\ instr_cnt = 0
    /\ trace_pc = 0
    /\ inst = 0
    /\ result = Rc("", << >>)
    /\ lines_read = 0

\* the program of the main specification
MainProgram ==
    (\o0000 :> Instr(\o10, \o00, \o0010))      \* CLA  [0010]
 @@ (\o0001 :> Instr(\o15, \o00, \o0011))      \* SUB  [0011]
 @@ (\o0002 :> Instr(\o00, \o00, \o0000))      \* HLT
 @@ (\o0003 :> Instr(\o31, \o03, \o0012))      \* STA  negated, << 3 -> [0012]
 @@ (\o0004 :> Instr(\o22, \o00, \o0012))      \* MLT  |[0012]|
 @@ (\o0005 :> Instr(\o24, \o00, \o0013))      \* DIV  [0013]
 @@ (\o0006 :> Instr(\o37, \o76, \o0012))      \* STB  -|B| >> 2 -> [0012]
 @@ (\o0007 :> Instr(\o44, \o00, \o0020))      \* JMP  0020
 @@ (\o0010 :> Word(0, 3))
 @@ (\o0011 :> Word(0, 4))
 @@ (\o0012 :> Word(1, 0))
 @@ (\o0013 :> Word(0, 0))
 @@ (\o0020 :> Instr(\o60, \o76, \o0014))      \* RT   2 words -> [0014..0015]
 @@ (\o0021 :> Instr(\o63, \o77, \o0016))      \* TI   1 word  -> [0016]
 @@ (\o0022 :> Instr(\o54, \o76, \o0015))      \* TA   2 words [0015..0016]
 @@ (\o0023 :> Instr(\o47, \o00, \o7777))      \* BRZ  7777
 @@ (\o0024 :> Instr(\o45, \o00, \o0002))      \* BR-  0002
 @@ (\o0025 :> Instr(\o46, \o00, \o0002))      \* BR+  0002
 @@ (\o0026 :> Instr(\o50, \o00, \o0000))      \* Type Octal: not implemented
 @@ (\o7777 :> Instr(\o06, \o00, \o0011))      \* AND  |[0011]|

Init ==
    /\ d = Machine(Image(MainProgram), 0, <<0, 0>>, <<0, 0>>)
    /\ ShellInit

(***************************************************************************)
(* What the operator may type                                              *)
(***************************************************************************)
Lit(neg, mag) == [neg |-> neg, mag |-> mag]
Arg0(txt, oct) == [txt |-> txt, oct |-> oct]

\* deposit commands: <<first argument, second argument>>
DepositCmds ==
    { << Arg0("a", -1), Lit(TRUE, \o77777777) >>,       \* d a -77777777
      << Arg0("B", -1), Lit(TRUE, 0) >>,                \* d B -0
      << Arg0("pc", -1), Lit(FALSE, \o21) >>,           \* d pc 21
      << Arg0("pc", -1), Lit(FALSE, \o10000) >>,        \* d pc 10000
      << Arg0("PC", -1), Lit(FALSE, \o10000) >>,        \* d PC 10000
      << Arg0("PC", -1), Lit(TRUE, \o26) >>,            \* d PC -26
      << Arg0("13", \o13), Lit(TRUE, 2) >>,            \* d 13 -2
      << Arg0("13", \o13), Lit(FALSE, \o100000000) >>,  \* d 13 100000000
      << Arg0("10000", \o10000), Lit(FALSE, 1) >> }     \* d 10000 1

GoArgs == { << >>, << \o3 >>, << \o20 >>, << \o23 >>, << \o10000 >> }

StepArgs == { << >>, << 0 >>, << MaxStep >> }

BreakAddrs == { \o1, \o2, \o21, \o26, \o10000 }

ClearAddrs == { \o1, \o2 }

AcsAddrs == { \o12, \o10000 }

\* -00000177, +01020304, a byte that is no tape code, then half a word
Tapes ==
    { << 0, 0, 1, 64, 64, 1, 63, 64, 1, 2, 0, 3, 4, 65, 64, 1, 1 >> }

KeyScripts ==
    { << >>,
      << "h", "~", "I", "7", "+" >>,
      << "o", "k", CtrlC >> }

Next ==
    \/ \E c \in DepositCmds : DoDeposit(c[1], c[2])
    \/ \E args \in GoArgs : DoGo(args)
    \/ \E args \in StepArgs : DoStep(args)
    \/ \E keys \in KeyScripts : LoopIter(keys)
    \/ \E addr \in BreakAddrs : DoBreak(addr)
    \/ \E addr \in ClearAddrs : DoClear(addr)
    \/ \E addr \in AcsAddrs : DoAcstop(addr)
    \/ \E addr \in AcsAddrs : DoAclear(addr)
    \/ \E data \in Tapes : DoAttach(data)
    \/ DoDetach

Spec == Init /\ [][Next]_vars


(***************************************************************************)
(* Properties of the shell and the run loop, checked under Spec            *)
(***************************************************************************)
SetOf(lst) == { lst[i] : i \in 1..Len(lst) }

\* a pass of the run loop is about to call exec (PC is inside memory)
ExecCall == mode = "running" /\ d.pc < MemSize

\* C1: in every reachable state the program counter satisfies 0 <= PC < 4096
C1_PCInRange == 0 <= d.pc /\ d.pc < 4096

\* C2: every memory word is below 2^25 (a 24-bit magnitude, a sign bit at bit
\* 24, bits 31..25 zero), and A and B are a sign 0 or 1 and a magnitude below
\* 2^24
C2_WordsFit ==
    /\ d.mem \in [0..4095 -> 0..(2 * 16777216 - 1)]
    /\ d.a[1] \in {0, 1} /\ 0 <= d.a[2] /\ d.a[2] < 16777216
    /\ d.b[1] \in {0, 1} /\ 0 <= d.b[2] /\ d.b[2] < 16777216

\* C2 witness: a deposited word, a word stored by STA with a shift and a
\* negation, a full 48-bit product in A and B
C2_Witness ==
    /\ d.mem[\o12] = Word(0, \o77777770)
    /\ d.b = <<1, \o10>>
    /\ d.a = <<1, \o77777767>>
    /\ d._opcode = \o22

\* C3 as claimed: a Go issued with PC = p and p in the breakpoint set (the
\* state in which the loop of that Go has not yet called exec and holds p)
\* reports "Breakpoint at p" and leaves the instruction counter, PC, A, B and
\* memory unchanged, with run false
C3_GoHaltsAtBreakpoint ==
    [][(mode = "running" /\ num_instr = << >> /\ instr_cnt = 0 /\ held_bpt # << >>)
        => /\ result'.kind = "Breakpoint at"
           /\ d'.instruction_count = d.instruction_count
           /\ d'.pc = d.pc /\ d'.a = d.a /\ d'.b = d.b /\ d'.mem = d.mem
           /\ d'.run = FALSE]_vars

\* C3 amended: whenever exec is called with PC = p and p on the breakpoint
\* list it reports "Breakpoint at p" without executing Memory[p] (counter, PC,
\* A, B, memory unchanged, run false, the loop is left); the first exec of a Go
\* or Step issued with PC = p is not such a call: p is off the list, Memory[p]
\* is executed and p is back on the list afterwards
C3_BreakpointStopsExec ==
    [][/\ (ExecCall /\ InList(d.pc, d.bpt))
           => /\ result'.kind = "Breakpoint at" /\ result'.args = << d.pc >>
              /\ d'.instruction_count = d.instruction_count
              /\ d'.pc = d.pc /\ d'.a = d.a /\ d'.b = d.b /\ d'.mem = d.mem
              /\ d'.run = FALSE /\ mode' = "prompt"
       /\ (ExecCall /\ held_bpt # << >>)
           => /\ held_bpt[1] = d.pc /\ ~InList(d.pc, d.bpt)
              /\ result'.kind # "Breakpoint at"
              /\ d'.instruction_count = d.instruction_count + 1
              /\ d'._opcode = Opcode(d.mem[d.pc])
              /\ InList(d.pc, d'.bpt)]_vars

\* C3 witness: a Go has stopped at a breakpoint it ran into
C3_Witness ==
    /\ mode = "prompt" /\ num_instr = << >> /\ instr_cnt > 1
    /\ result.kind = "Breakpoint at" /\ result.args = << d.pc >>
    /\ InList(d.pc, d.bpt) /\ ~d.run

\* C4: a single Step issued with PC = p and p on the breakpoint list takes p
\* off the list and holds it (first conjunct); its one pass executes exactly
\* Memory[p], the counter grows by exactly 1, and the Step returns with p back
\* on the list, once, and nothing else added or removed (second conjunct)
C4_StepOverBreakpoint ==
    [][/\ (mode = "prompt" /\ mode' = "running" /\ num_instr' = << 1 >>
               /\ InList(d.pc, d.bpt))
           => /\ held_bpt' = << d.pc >> /\ d'.pc = d.pc
              /\ SetOf(d'.bpt) = SetOf(d.bpt) \ {d.pc}
              /\ Len(d'.bpt) = Len(d.bpt) - 1
       /\ (ExecCall /\ num_instr = << 1 >> /\ held_bpt # << >>)
           => /\ d'.instruction_count = d.instruction_count + 1
              /\ trace_pc' = held_bpt[1] /\ inst' = d.mem[held_bpt[1]]
              /\ d'._opcode = Opcode(d.mem[held_bpt[1]])
              /\ mode' = "prompt" /\ held_bpt' = << >>
              /\ SetOf(d'.bpt) = SetOf(d.bpt) \cup {held_bpt[1]}
              /\ Len(d'.bpt) = Len(d.bpt) + 1]_vars

\* C4 witness: a single Step over a breakpoint on a TI that Control-C ended
C4_Witness ==
    /\ mode = "prompt" /\ num_instr = << 1 >> /\ instr_cnt = 0
    /\ result.kind = "Control-C"
    /\ InList(trace_pc, d.bpt)
    /\ d._opcode = \o63

\* C5: the instruction counter never decreases; a call of exec adds exactly 1
\* when it dispatches an instruction (whatever the opcode) and nothing when
\* it stops at a breakpoint; nothing else changes the counter
C5_InstructionCounter ==
    [][/\ d'.instruction_count >= d.instruction_count
       /\ ExecCall =>
             IF InList(d.pc, d.bpt)
             THEN d'.instruction_count = d.instruction_count
                  /\ result'.kind = "Breakpoint at"
             ELSE d'.instruction_count = d.instruction_count + 1
                  /\ d'._opcode = Opcode(d.mem[d.pc])
                  /\ result'.kind # "Breakpoint at"
       /\ ~ExecCall => d'.instruction_count = d.instruction_count]_vars

\* C5 witness: an invalid opcode has been counted
C5_Witness ==
    /\ result.kind = "Invalid or Unknown OPCODE"
    /\ d.instruction_count > 0
    /\ d._opcode = \o50


(***************************************************************************)
(* SpecInstr: one instruction, stepped from a state the deposit command    *)
(* can set up: the instruction at 0000, its operand at 0100, A and B.      *)
(***************************************************************************)
InstrAt == \o0000
DataAt  == \o0100

\* the opcodes of the seven four-opcode families, AND 04 .. STB 37
FamilyOps == \o04..\o37

\* the sweep of the modifier unit: every count, through each kind of use
SweepOps  == { \o04, \o10, \o14, \o20, \o30, \o34 }
SweepMags == { 1, \o10, \o52525252, \o77777777 }
SweepRegs == { <<0, 0>>, <<0, 1>>, <<1, \o77777777>>, <<0, \o52525252>> }

\* the arithmetic: every family opcode, both signs of zero, small and full
\* magnitudes, no shift and a right shift of one
ArithCounts == { \o00, \o77 }
ArithMags   == { 0, 2, 3, \o40000000, \o77777777 }
ArgMags     == { 0, 3, 4, \o52525252, \o77777777 }

\* B differs from A in sign and magnitude
BReg(sa, ma) == <<1 - sa, (ma + 5) % 16777216>>

InstrState(op, count, a, b, arg) ==
    Machine(Image((InstrAt :> Instr(op, count, DataAt)) @@ (DataAt :> arg)),
            InstrAt, a, b)

InitInstr ==
    /\ ShellInit
    /\ \E op \in FamilyOps, count \in ArithCounts, sa \in {0, 1}, ma \in ArithMags,
          sm \in {0, 1}, mm \in ArgMags :
           d = InstrState(op, count, <<sa, ma>>, BReg(sa, ma), Word(sm, mm))

InitShift ==
    /\ ShellInit
    /\ \E op \in SweepOps, count \in 0..63, v \in SweepMags, a \in SweepRegs :
           d = InstrState(op, count, a, <<1, v>>, Word(0, v))

NextInstr ==
    \/ d.instruction_count = 0 /\ DoStep(<< >>)
    \/ LoopIter(<< >>)

SpecInstr == InitInstr /\ [][NextInstr]_vars

SpecShift == InitShift /\ [][NextInstr]_vars

\* the instruction exec is about to fetch, and its operand word
CurInstr  == d.mem[d.pc]
CurOp     == Opcode(CurInstr)
CurCount  == Count(CurInstr)
CurAddr   == Addr(CurInstr)
ArgWord   == d.mem[CurAddr]
SignOf(w) == w \div 16777216
MagOf(w)  == w % 16777216

\* the sign modifier of section 4.1: pass, negate, absolute, minus absolute
ModifiedSign(op, sgn) ==
    CASE op % 4 = 0 -> sgn
      [] op % 4 = 1 -> 1 - sgn
      [] op % 4 = 2 -> 0
      [] op % 4 = 3 -> 1

\* the shift as the claims state it, bit by bit: bit i of the result is bit
\* i + (64 - count) of v when count >= 32 and bit i - count of v otherwise,
\* bits outside 0..23 being 0
BitOf(v, j) == IF j < 0 \/ j > 23 THEN 0 ELSE (v \div (2 ^ j)) % 2

RECURSIVE ShiftBits(_, _, _)
ShiftBits(count, v, i) ==
    IF i > 23 THEN 0
    ELSE (IF count >= 32 THEN BitOf(v, i + (64 - count)) ELSE BitOf(v, i - count)) * (2 ^ i)
         + ShiftBits(count, v, i + 1)

ClaimShift(count, v) == ShiftBits(count, v, 0)

\* the operand as the instruction sees it
ModArgSign == ModifiedSign(CurOp, SignOf(ArgWord))
ModArgMag  == ClaimShift(CurCount, MagOf(ArgWord))

Signed(sgn, mag) == IF sgn = 1 THEN -mag ELSE mag
Abs(x) == IF x < 0 THEN -x ELSE x

\* C6 as claimed: in every family the result (the new A; the stored word for
\* STA/STB) has sign 0 when opcode & 3 = 2 and sign 1 when opcode & 3 = 3
\* (a DIV that stops on a zero divisor produces no result and is left out)
C6_ResultSignForced ==
    [][(ExecCall /\ CurOp \in FamilyOps /\ CurOp % 4 \in {2, 3}
            /\ ~(CurOp \in \o24..\o27 /\ ModArgMag = 0))
        => LET forced == IF CurOp % 4 = 2 THEN 0 ELSE 1
           IN  IF CurOp \in \o30..\o37
               THEN SignOf(d'.mem[CurAddr]) = forced
               ELSE d'.a[1] = forced]_vars

\* C6 amended: the forced sign is that of the modified operand.  It is the
\* sign of the result for CLA, STA and STB, and for AND with opcode & 3 = 2;
\* AND with opcode & 3 = 3 keeps the prior sign of A; ADD gives the sign of
\* the sum of A and the operand with the forced sign; MLT and DIV (divisor
\* not 0) give both A and B the prior sign of A XOR the forced sign
C6_OperandSignForced ==
    [][(ExecCall /\ CurOp \in FamilyOps /\ CurOp % 4 \in {2, 3})
        => LET forced == IF CurOp % 4 = 2 THEN 0 ELSE 1
               sum    == Signed(d.a[1], d.a[2]) + Signed(forced, ModArgMag)
               xor    == IF d.a[1] = forced THEN 0 ELSE 1
           IN  /\ CurOp \in \o04..\o07 =>
                    d'.a[1] = (IF forced = 0 THEN 0 ELSE d.a[1])
               /\ CurOp \in \o10..\o13 => d'.a[1] = forced
               /\ CurOp \in \o14..\o17 => d'.a[1] = (IF sum < 0 THEN 1 ELSE 0)
               /\ (CurOp \in \o20..\o23 \/ (CurOp \in \o24..\o27 /\ ModArgMag # 0))
                    => d'.a[1] = xor /\ d'.b[1] = xor
               /\ CurOp \in \o30..\o33 =>
                    SignOf(d'.mem[CurAddr]) = forced /\ d'.a = d.a
               /\ CurOp \in \o34..\o37 =>
                    SignOf(d'.mem[CurAddr]) = forced /\ d'.b = d.b]_vars

\* C6 witness: MLT with "absolute" (opcode 22) of a negative A has left a
\* negative product
C6_Witness ==
    /\ mode = "prompt" /\ d.instruction_count = 1
    /\ d._opcode = \o22
    /\ d.a = <<1, 0>> /\ d.b = <<1, 6>>
    /\ d.mem[DataAt] = Word(1, 3)


(***************************************************************************)
(* SpecRoundTrip: STA k at p and CLA k at p + 1, stepped one or two        *)
(* instructions at a time; B starts as a copy of A and neither             *)
(* instruction writes B.                                                   *)
(***************************************************************************)
RoundTripMags  == { 0, 1, \o52525252, \o77777777 }
RoundTripAddrs == { \o0000, \o0100, \o7777 }

\* k is p itself, p + 2, or an address away from the program
RoundTripData(p) == { p, (p + 2) % 4096, \o0300 }

InitRoundTrip ==
    /\ ShellInit
    /\ \E sa \in {0, 1}, ma \in RoundTripMags, p \in RoundTripAddrs :
         \E k \in RoundTripData(p) :
           d = Machine(Image((p :> Instr(\o30, 0, k))
                             @@ (((p + 1) % 4096) :> Instr(\o10, 0, k))),
                       p, <<sa, ma>>, <<sa, ma>>)

NextRoundTrip ==
    \/ \E n \in 1..2 : d.instruction_count + n <= 2 /\ DoStep(<< n >>)
    \/ LoopIter(<< >>)

SpecRoundTrip == InitRoundTrip /\ [][NextRoundTrip]_vars

\* C7: after STA k (opcode 30, count 0) and then CLA k (opcode 10, count 0),
\* k not the address of the CLA, A equals its value before the STA (kept in
\* B) bit for bit, and Memory[k] holds that sign and magnitude
C7_RoundTrip ==
    d.instruction_count = 2
        => /\ d._opcode = \o10 /\ d._count = 0
           /\ d.a = d.b
           /\ d.mem[d._addr] = Word(d.b[1], d.b[2])

\* C7 witness: negative zero has gone round, with the CLA at 0000 after the
\* STA at 7777
C7_Witness ==
    /\ d.instruction_count = 2 /\ mode = "prompt"
    /\ d.pc = 1 /\ d._opcode = \o10
    /\ d.a = <<1, 0>> /\ d.mem[d._addr] = Word(1, 0)

\* C8: for every count 0..63 and 24-bit magnitude v the modifier unit gives
\* v >> (64 - count) when count >= 32 and (v << count) mod 2^24 otherwise,
\* the identity when count = 0, alike on the operand fetched by AND, CLA,
\* ADD and MLT and on the register stored by STA and STB
C8_Shift ==
    [][(ExecCall /\ CurOp \in SweepOps)
        => LET c == CurCount
               v == MagOf(ArgWord)
           IN  /\ CurOp = \o10 => d'.a[2] = ClaimShift(c, v)
               /\ (CurOp = \o04 /\ d.a[2] = \o77777777) => d'.a[2] = ClaimShift(c, v)
               /\ (CurOp = \o14 /\ d.a = <<0, 0>>) => d'.a[2] = ClaimShift(c, v)
               /\ (CurOp = \o20 /\ d.a[2] = 1)
                    => d'.a[2] = 0 /\ d'.b[2] = ClaimShift(c, v)
               /\ CurOp = \o30 => MagOf(d'.mem[CurAddr]) = ClaimShift(c, d.a[2])
               /\ CurOp = \o34 => MagOf(d'.mem[CurAddr]) = ClaimShift(c, d.b[2])
               /\ (c = 0 /\ CurOp = \o10) => d'.a[2] = v
               /\ (c = 0 /\ CurOp = \o30) => MagOf(d'.mem[CurAddr]) = d.a[2]
               /\ (c = 0 /\ CurOp = \o34) => MagOf(d'.mem[CurAddr]) = d.b[2]]_vars

\* C8 witness: CLA with count 03 of +00000001 has left A = +00000010
C8_Witness ==
    /\ mode = "prompt" /\ d.instruction_count = 1
    /\ d._opcode = \o10 /\ d._count = \o03
    /\ d.mem[DataAt] = Word(0, 1) /\ d.a = <<0, \o10>>

\* C9: ADD (opcodes 14-17) sets A to the sign-magnitude form of the integer
\* sum of A and the modified operand: sign 1 iff the sum is negative,
\* magnitude |sum| mod 2^24; B and memory are unchanged
C9_Add ==
    [][(ExecCall /\ CurOp \in \o14..\o17)
        => LET sum == Signed(d.a[1], d.a[2]) + Signed(ModArgSign, ModArgMag)
           IN  /\ d'.a = <<IF sum < 0 THEN 1 ELSE 0, Abs(sum) % 16777216>>
               /\ d'.b = d.b
               /\ d'.mem = d.mem]_vars

\* C9 witness: A = +3 (B = -10 beside it), ADD with negate (opcode 15) of
\* +4 has left A = -00000001
C9_Witness ==
    /\ mode = "prompt" /\ d.instruction_count = 1
    /\ d._opcode = \o15 /\ d._count = 0
    /\ d.mem[DataAt] = Word(0, 4) /\ d.b = <<1, \o10>> /\ d.a = <<1, 1>>

\* pairwise coprime moduli whose product exceeds 2^48: two 48-bit values
\* with the same residues are equal
Moduli == { 8192, 8191, 8189, 8187 }

\* C10: MLT (opcodes 20-23) leaves A.magnitude * 2^24 + B.magnitude equal to
\* the full product of A's magnitude and the modified operand magnitude, and
\* gives A and B sign 0 when the prior sign of A equals the modified operand
\* sign and sign 1 otherwise
C10_Mlt ==
    [][(ExecCall /\ CurOp \in \o20..\o23)
        => LET sgn == IF d.a[1] = ModArgSign THEN 0 ELSE 1
           IN  /\ d'.a[1] = sgn /\ d'.b[1] = sgn
               /\ 0 <= d'.a[2] /\ d'.a[2] < 16777216
               /\ 0 <= d'.b[2] /\ d'.b[2] < 16777216
               /\ \A m \in Moduli :
                    ((d'.a[2] % m) * (16777216 % m) + d'.b[2]) % m
                        = ((d.a[2] % m) * (ModArgMag % m)) % m]_vars

\* C10 witness: A = -2 times memory -3 (opcode 20) has left A = +00000000,
\* B = +00000006
C10_Witness ==
    /\ mode = "prompt" /\ d.instruction_count = 1
    /\ d._opcode = \o20 /\ d._count = 0
    /\ d.mem[DataAt] = Word(1, 3)
    /\ d.a = <<0, 0>> /\ d.b = <<0, 6>>


(***************************************************************************)
(* SpecDiv: one DIV, started by "go", from deposited A, B and operand.     *)
(***************************************************************************)
DivOps     == \o24..\o27
\* no shift, left 1, left 23, right 1, right 24
DivCounts  == { \o00, \o01, \o27, \o77, \o50 }
DivAMags   == { 0, 1, 3, \o40000000, \o77777777 }
DivArgMags == { 0, 1, 3, 4, \o52525252, \o77777777 }

InitDiv ==
    /\ ShellInit
    /\ \E op \in DivOps, count \in DivCounts, sa \in {0, 1}, ma \in DivAMags,
          sm \in {0, 1}, mm \in DivArgMags :
           d = InstrState(op, count, <<sa, ma>>, BReg(sa, ma), Word(sm, mm))

NextDiv ==
    \/ d.instruction_count = 0 /\ lines_read = 0 /\ DoGo(<< >>)
    \/ d.instruction_count = 0 /\ LoopIter(<< >>)

SpecDiv == InitDiv /\ [][NextDiv]_vars

\* C11: DIV (opcodes 24-27) stops with "Divide by Zero Stop" exactly when the
\* modified operand magnitude (after the shift) is 0; then run is false and
\* A, B and memory are unchanged
C11_DivideByZero ==
    [][(ExecCall /\ CurOp \in DivOps)
        => IF ModArgMag = 0
           THEN /\ result'.kind = "Divide by Zero Stop"
                /\ d'.run = FALSE /\ mode' = "prompt"
                /\ d'.a = d.a /\ d'.b = d.b /\ d'.mem = d.mem
           ELSE result'.kind # "Divide by Zero Stop"]_vars

\* C11 witness: an operand +00000001 shifted right by one is a zero divisor;
\* the machine has stopped with A = -77777777 as it was
C11_Witness ==
    /\ mode = "prompt" /\ d.instruction_count = 1 /\ ~d.run
    /\ result.kind = "Divide by Zero Stop"
    /\ d._opcode = \o24 /\ d._count = \o77
    /\ d.mem[DataAt] = Word(0, 1)
    /\ d.a = <<1, \o77777777>> /\ d.b = <<0, 4>>

\* C12: DIV with a modified divisor dv # 0 leaves in B the low 24 bits of
\* floor(A.magnitude * 2^24 / dv) and in A the remainder
\* (A.magnitude * 2^24) mod dv, below dv; A and B both get the prior sign of
\* A XOR the modified operand sign; run stays true.
\* With r1 = A.magnitude mod dv the low 24 bits of the quotient are
\* floor(r1 * 2^24 / dv) and the remainder is (r1 * 2^24) mod dv, so the
\* statement is B' * dv + A' = r1 * 2^24 with A' < dv, compared by residues.
C12_Div ==
    [][(ExecCall /\ CurOp \in DivOps /\ ModArgMag # 0)
        => LET dv  == ModArgMag
               r1  == d.a[2] % dv
               sgn == IF d.a[1] = ModArgSign THEN 0 ELSE 1
           IN  /\ d'.a[1] = sgn /\ d'.b[1] = sgn
               /\ 0 <= d'.a[2] /\ d'.a[2] < dv
               /\ 0 <= d'.b[2] /\ d'.b[2] < 16777216
               /\ \A m \in Moduli :
                    ((d'.b[2] % m) * (dv % m) + d'.a[2]) % m
                        = ((r1 % m) * (16777216 % m)) % m
               /\ d'.run = TRUE /\ mode' = "running"]_vars

\* C12 witness: A = -3 divided by +4 (opcode 24) has left the quotient
\* 3 * 2^24 / 4 = 60000000 (octal) in B and remainder 0 in A, both negative
C12_Witness ==
    /\ mode = "running" /\ d.instruction_count = 1 /\ d.run
    /\ d._opcode = \o24 /\ d._count = 0
    /\ d.mem[DataAt] = Word(0, 4)
    /\ d.a = <<1, 0>> /\ d.b = <<1, \o60000000>>


(***************************************************************************)
(* SpecOpcode: one instruction of every opcode outside the sign-modifier   *)
(* families, stepped at 0000 or at 7777, with an address field away from   *)
(* the program, at the top of memory, or right after the instruction.      *)
(***************************************************************************)
OtherOps     == (\o00..\o03) \cup (\o40..\o77)
\* the input/output opcodes move one word or four, the others carry any count
OpcodeCounts(op) == IF op \in {\o54, \o60, \o63} THEN { \o74, \o77 } ELSE { \o00, \o77 }
OpcodeAMags  == { 0, 1, \o77777777 }
OpcodePCs    == { \o0000, \o7777 }
OpcodeAddrs(p) == { \o0100, \o7776, (p + 1) % 4096 }

InitOpcode ==
    /\ ShellInit
    /\ \E op \in OtherOps, sa \in {0, 1}, ma \in OpcodeAMags, p \in OpcodePCs :
         \E addr \in OpcodeAddrs(p), count \in OpcodeCounts(op) :
           d = Machine(Image(p :> Instr(op, count, addr)), p, <<sa, ma>>, BReg(sa, ma))

NextOpcode ==
    \/ d.instruction_count = 0 /\ lines_read = 0 /\ DoStep(<< >>)
    \/ \E keys \in KeyScripts : d.instruction_count = 0 /\ LoopIter(keys)

SpecOpcode == InitOpcode /\ [][NextOpcode]_vars

ListedOps == {\o00} \cup (\o04..\o37) \cup (\o44..\o47) \cup {\o54, \o60, \o63}

\* C14: for every opcode outside {00, 04-37, 44-47, 54, 60, 63} exec stops
\* the CPU with "Invalid or Unknown OPCODE": run is false, A, B and memory
\* are unchanged, PC has advanced by one (mod 4096) and the instruction
\* counter by one
C14_InvalidOpcode ==
    [][(ExecCall /\ CurOp \notin ListedOps)
        => /\ result'.kind = "Invalid or Unknown OPCODE"
           /\ result'.args = << CurInstr, d.pc >>
           /\ d'.run = FALSE /\ mode' = "prompt"
           /\ d'.a = d.a /\ d'.b = d.b /\ d'.mem = d.mem
           /\ d'.pc = (d.pc + 1) % 4096
           /\ d'.instruction_count = d.instruction_count + 1]_vars

\* C14 witness: opcode 62 (Read Card) at 7777 has stopped the CPU with PC
\* wrapped to 0000
C14_Witness ==
    /\ mode = "prompt" /\ d.instruction_count = 1 /\ ~d.run
    /\ result.kind = "Invalid or Unknown OPCODE"
    /\ d._opcode = \o62 /\ trace_pc = \o7777 /\ d.pc = 0


(***************************************************************************)
(* SpecAcs: the main program run by "go" from several addresses, with one  *)
(* address-compare stop set (or none) and a tape in the reader.            *)
(***************************************************************************)
AcsStarts == { \o0000, \o0003, \o0004, \o0006, \o0020, \o0022 }
\* none; CLA operand; STA/STB/MLT operand; a fetch; RT, TA and TI words
AcsLists  == { << >>, << \o0010 >>, << \o0012 >>, << \o0007 >>,
               << \o0014 >>, << \o0015 >>, << \o0016 >> }

InitAcs ==
    /\ ShellInit
    /\ \E p \in AcsStarts, lst \in AcsLists, tape \in Tapes :
         d = [do_attach(Machine(Image(MainProgram), p, <<1, 5>>, <<0, \o14>>), tape)
                 EXCEPT !.acs = lst]

NextAcs ==
    \/ lines_read = 0 /\ DoGo(<< >>)
    \/ \E keys \in KeyScripts : LoopIter(keys)

SpecAcs == InitAcs /\ [][NextAcs]_vars

\* a compare stop was reported in the state
TapReported(s) ==
    \E i \in 1..Len(s.tty) :
        s.tty[i].kind \in { "Read Memory address Compare Stop @",
                            "Write Memory address Compare Stop @" }

\* the addresses a TA, RT or TI at Addr = a has gone through when it ends
\* with Addr = e
Walked(a, e) == { (a + k) % 4096 : k \in 0..(((e - a) % 4096) - 1) }

\* C15: when an instruction reads or writes an address in the compare-stop
\* list (fetch, operand fetch, STA/STB, TA, RT, TI), run becomes false and
\* the run loop of Go ends with that instruction; the access completes and
\* the instruction finishes: apart from run and the report, the machine is
\* left as the same instruction leaves it with no compare stop set
C15_CompareStop ==
    [][(ExecCall /\ ~InList(d.pc, d.bpt))
        => LET hit(x) == InList(x, d.acs)
               stop   == d'.run = FALSE /\ mode' = "prompt"
               done   == /\ d'.instruction_count = d.instruction_count + 1
                         /\ d'._opcode = CurOp
           IN  /\ TapReported(d') => stop
               /\ hit(d.pc) => stop /\ done
               /\ (CurOp \in \o04..\o27 /\ hit(CurAddr)) => stop /\ done
               /\ (CurOp \in \o10..\o13 /\ hit(CurAddr))
                    => d'.a = <<ModArgSign, ModArgMag>>
               /\ (CurOp \in \o30..\o33 /\ hit(CurAddr))
                    => /\ stop /\ done
                       /\ d'.mem[CurAddr] = Word(ModifiedSign(CurOp, d.a[1]),
                                                 ClaimShift(CurCount, d.a[2]))
               /\ (CurOp \in \o34..\o37 /\ hit(CurAddr))
                    => /\ stop /\ done
                       /\ d'.mem[CurAddr] = Word(ModifiedSign(CurOp, d.b[1]),
                                                 ClaimShift(CurCount, d.b[2]))
               /\ (CurOp \in {\o54, \o60, \o63}
                     /\ \E x \in Walked(CurAddr, d'._addr) : hit(x))
                    => stop /\ done
               /\ \E keys \in KeyScripts :
                    LET free == exec([Quiet(d) EXCEPT !.acs = << >>], keys)
                    IN  /\ free.exc # "blocked" /\ free.keys = << >>
                        /\ d'.mem = free.st.mem /\ d'.a = free.st.a /\ d'.b = free.st.b
                        /\ d'.pc = free.st.pc /\ d'._addr = free.st._addr
                        /\ d'.ptr = free.st.ptr]_vars

\* C15 witness: "go" from 0006 with a compare stop at 0014 has ended in the
\* RT at 0020, which stored both of its words, the first at 0014
C15_Witness ==
    /\ mode = "prompt" /\ num_instr = << >> /\ ~d.run
    /\ d.instruction_count = 3 /\ trace_pc = \o0020
    /\ d._opcode = \o60 /\ d._addr = \o0016
    /\ InList(\o0014, d.acs) /\ TapReported(d)
    /\ d.mem[\o0014] = Word(1, \o177)
    /\ d.mem[\o0015] = Word(0, \o01020304)


(***************************************************************************)
(* SpecTape: "go" at 0000 of RT (one to three words), RT (one word), HLT,  *)
(* with a tape of up to two whole words and a tail in the reader.          *)
(***************************************************************************)
\* -00000177; +01020304 with a blank inside; -77777777; +0 after a leader; -0
TapeWords ==
    { << 1, 64, 64, 1, 63 >>,
      << 64, 1, 2, 0, 3, 4 >>,
      << 63, 63, 63, 63, 63 >>,
      << 0, 0, 64, 64, 64, 64, 64 >>,
      << 32, 64, 64, 64, 64 >> }

\* the end at a word boundary, after a trailer, after a sign byte, inside a
\* word; an invalid byte for a sign byte, inside a word, after a trailer
TapeTails ==
    { << >>, << 0, 0 >>, << 1 >>, << 64, 1, 2 >>, << 1, 64, 64, 0 >>,
      << 65 >>, << 1, 1, 200 >>, << 0, 65, 1 >> }

TapeReels ==
    TapeTails
    \cup { w \o tl : w \in TapeWords, tl \in TapeTails }
    \cup { w \o v \o tl : w \in TapeWords, v \in TapeWords, tl \in TapeTails }

TapeCounts == { \o77, \o76, \o75 }
TapeAddrs  == { \o0100, \o7777 }

TapeProgram(count, addr) ==
    (\o0000 :> Instr(\o60, count, addr))
 @@ (\o0001 :> Instr(\o60, \o77, \o0200))
 @@ (\o0002 :> Instr(\o00, \o00, \o0000))

InitTape ==
    /\ ShellInit
    /\ \E reel \in TapeReels, count \in TapeCounts, addr \in TapeAddrs :
         d = do_attach(Machine(Image(TapeProgram(count, addr)), 0, <<0, 0>>, <<0, 0>>),
                       reel)

NextTape ==
    \/ lines_read = 0 /\ DoGo(<< >>)
    \/ LoopIter(<< >>)

SpecTape == InitTape /\ [][NextTape]_vars

\* the tape as the protocol reads it: the bytes after the read position that
\* are not blank
IsPunched(b) == b # 0
Punched(f) == SelectSeq(SubSeq(f.data, f.pos + 1, Len(f.data)), IsPunched)

\* RT is about to run with a tape in the reader
RtCall == ExecCall /\ ~InList(d.pc, d.bpt) /\ CurOp = \o60 /\ d.ptr # << >>

\* the words RT has stored when it ends with Addr = e
Stored(e) == (e - CurAddr) % 4096

\* C16 as claimed: the first non-blank byte of a word is its sign byte, and
\* every sign byte 0x01..0x40 makes the word RT stores negative
C16_SignByteNegative ==
    [][(RtCall /\ Stored(d'._addr) > 0)
        => LET nb == Punched(d.ptr[1])
           IN  nb[1] \in 1..64 => SignOf(d'.mem[CurAddr]) = 1]_vars

\* C16 amended: the first non-blank byte of a word is its sign byte; a sign
\* byte 0x01..0x3F makes the stored word negative, the sign byte 0x40 (the
\* non-blank zero) makes it positive; the four non-blank bytes after it are
\* the magnitude, most significant first, 0x40 standing for 0
C16_SignByte ==
    [][(RtCall /\ Stored(d'._addr) > 0)
        => LET nb == Punched(d.ptr[1])
           IN  /\ nb[1] \in 1..64
               /\ SignOf(d'.mem[CurAddr]) = (IF nb[1] \in 1..63 THEN 1 ELSE 0)
               /\ MagOf(d'.mem[CurAddr])
                    = (nb[2] % 64) * 262144 + (nb[3] % 64) * 4096
                      + (nb[4] % 64) * 64 + (nb[5] % 64)]_vars

\* C16 witness: the word punched 40 01 02 00 03 04 has been stored as
\* +01020304 by the RT at 0000
C16_Witness ==
    /\ d.instruction_count = 1 /\ d._opcode = \o60 /\ d.ptr # << >>
    /\ d.ptr[1].data[1] = 64 /\ d.ptr[1].data[2] = 1
    /\ d.mem[\o0100] = Word(0, \o01020304)


\* word k (from 0) of the punched bytes nb: a sign byte and four digits
TapeWord(nb, k) ==
    LET b(i) == nb[5 * k + i]
    IN  (IF b(1) \in 1..63 THEN 16777216 ELSE 0)
        + (b(2) % 64) * 262144 + (b(3) % 64) * 4096 + (b(4) % 64) * 64 + (b(5) % 64)

\* memory mem with words k .. n - 1 of nb stored from address a + k on
RECURSIVE StoreWords(_, _, _, _, _)
StoreWords(mem, nb, a, k, n) ==
    IF k >= n THEN mem
    ELSE StoreWords([mem EXCEPT ![(a + k) % 4096] = TapeWord(nb, k)], nb, a, k + 1, n)

\* the position in nb of the first byte above 64, 0 when there is none
FirstBad(nb) ==
    IF \E i \in 1..Len(nb) : nb[i] > 64
    THEN CHOOSE i \in 1..Len(nb) : nb[i] > 64 /\ \A j \in 1..(i - 1) : nb[j] <= 64
    ELSE 0

\* C17: when the tape ends during RT, at a word boundary or inside a word,
\* the transfer stops and run stays true; the words read whole before the
\* end are stored at consecutive addresses from the address field on, the
\* incomplete word is not stored and no other memory word changes
C17_TapeEnd ==
    [][(RtCall /\ FirstBad(Punched(d.ptr[1])) = 0
               /\ Len(Punched(d.ptr[1])) \div 5 < 64 - CurCount)
        => LET nb == Punched(d.ptr[1])
               n  == Len(nb) \div 5
           IN  /\ d'.run = TRUE /\ mode' = "running"
               /\ d'.ptr = << >>
               /\ d'._addr = (CurAddr + n) % 4096
               /\ result' = Rc("next addr:     ", << (CurAddr + n) % 4096 >>)
               /\ d'.mem = StoreWords(d.mem, nb, CurAddr, 0, n)
               /\ d'.instruction_count = d.instruction_count + 1]_vars

\* C17 witness: RT of two words to 0100 met the end of the tape inside the
\* second word: -00000177 is at 0100, 0101 is as it was, the machine runs on
C17_Witness ==
    /\ mode = "running" /\ d.run /\ d.instruction_count = 1
    /\ d._opcode = \o60 /\ d._count = \o76 /\ d.ptr = << >>
    /\ d._addr = \o0101
    /\ d.mem[\o0100] = Word(1, \o177)
    /\ d.mem[\o0101] = RandomImage[\o0101]

\* C18: when RT meets a tape byte above 64 the CPU stops (run false) and the
\* transfer ends: the words stored before the invalid byte stay, the word
\* holding the invalid byte is not stored, and the next address reported is
\* the one after the last stored word
C18_InvalidByte ==
    [][(RtCall /\ FirstBad(Punched(d.ptr[1])) # 0
               /\ FirstBad(Punched(d.ptr[1])) <= 5 * (64 - CurCount))
        => LET nb == Punched(d.ptr[1])
               n  == (FirstBad(nb) - 1) \div 5
           IN  /\ d'.run = FALSE /\ mode' = "prompt"
               /\ \E i \in 1..Len(d'.tty) : d'.tty[i].kind = "Unexpected PT character"
               /\ d'._addr = (CurAddr + n) % 4096
               /\ result' = Rc("next addr:     ", << (CurAddr + n) % 4096 >>)
               /\ d'.mem = StoreWords(d.mem, nb, CurAddr, 0, n)]_vars

\* C18 witness: RT of two words to 7777 stored -00000177 there and stopped
\* on the byte 200 in the second word, reporting next address 0000
C18_Witness ==
    /\ mode = "prompt" /\ ~d.run /\ d.instruction_count = 1
    /\ d._opcode = \o60 /\ d._count = \o76
    /\ d.ptr # << >> /\ d.ptr[1].data[d.ptr[1].pos] = 200
    /\ result = Rc("next addr:     ", << \o0000 >>)
    /\ d.mem[\o7777] = Word(1, \o177)
    /\ d.mem[\o0000] = Instr(\o60, \o76, \o7777)


(***************************************************************************)
(* SpecType: "go" at 0020 of one TA or TI (one to four words) followed by  *)
(* HLT.  "HELLO WORLD" padded with code 66 is at 0010..0013; the top of    *)
(* memory holds words with the sign bit set.  For TA the compare stops may *)
(* be set on every address it can read, so the reads are reported.         *)
(***************************************************************************)
Packed(c1, c2, c3, c4) == c1 * 262144 + c2 * 4096 + c3 * 64 + c4

TypeProgram(op, count, addr) ==
    (\o0020 :> Instr(op, count, addr))
 @@ (\o0021 :> Instr(\o00, \o00, \o0000))
 @@ (\o0010 :> Packed(\o30, \o25, \o34, \o34))             \* HELL
 @@ (\o0011 :> Packed(\o42, \o20, \o52, \o42))             \* O WO
 @@ (\o0012 :> Packed(\o45, \o34, \o24, \o66))             \* RLD
 @@ (\o0013 :> Packed(\o66, \o66, \o66, \o66))
 @@ (\o7776 :> Word(1, Packed(\o66, \o00, \o66, \o77)))
 @@ (\o7777 :> Word(1, Packed(\o37, \o40, \o57, \o66)))
 @@ (\o0000 :> Word(0, Packed(\o66, \o66, \o66, \o21)))
 @@ (\o0001 :> Word(1, Packed(\o01, \o02, \o03, \o04)))

TypeCounts == { \o74, \o75, \o76, \o77 }
TypeAddrs  == { \o0010, \o7776 }
TypeTaps   == << \o0010, \o0011, \o0012, \o0013, \o0014,
                 \o7775, \o7776, \o7777, \o0000, \o0001, \o0002 >>

\* what is typed while a TI waits: Control-C at once, after a key outside
\* the table, inside the second word, inside the third word; one whole
\* word; two whole words
TypeScripts ==
    { << >>,
      << CtrlC >>,
      << "~", CtrlC >>,
      << "h", "~", "e", "l", "L", "o", CtrlC >>,
      << "h", "e", "l", "l", "o", " ", "{", "w", "O", "}", "r", CtrlC >>,
      << "7", "+", "~", ".", "a" >>,
      << "a", "b", "c", "d", "e", "f", "g", "h" >> }

InitType ==
    /\ ShellInit
    /\ \E count \in TypeCounts, addr \in TypeAddrs, sa \in {0, 1} :
         \/ \E taps \in { << >>, TypeTaps } :
              d = [Machine(Image(TypeProgram(\o54, count, addr)), \o0020,
                           <<sa, 5>>, <<1 - sa, 0>>) EXCEPT !.acs = taps]
         \/ d = Machine(Image(TypeProgram(\o63, count, addr)), \o0020,
                        <<sa, 5>>, <<1 - sa, 0>>)

NextType ==
    \/ lines_read = 0 /\ DoGo(<< >>)
    \/ \E keys \in TypeScripts : LoopIter(keys)

SpecType == InitType /\ [][NextType]_vars

\* what the pass has printed: the text of TA, the addresses of the reads
\* reported, the codes TI echoed
IsTa(msg)      == msg.kind = "TA"
IsReadTap(msg) == msg.kind = "Read Memory address Compare Stop @"
IsEcho(msg)    == msg.kind = "echo"
IsBell(msg)    == msg.kind = "bell"

\* the glyphs of the n words from address a on, code 66 left out
RECURSIVE Typed(_, _, _, _)
Typed(mem, a, k, n) ==
    IF k >= n THEN << >>
    ELSE LET w    == MagOf(mem[(a + k) % 4096])
             c(i) == (w \div (64 ^ (4 - i))) % 64
             g(i) == IF c(i) = \o66 THEN << >> ELSE << TaGlyphs[c(i) + 1] >>
         IN  g(1) \o g(2) \o g(3) \o g(4) \o Typed(mem, a, k + 1, n)

\* C19: TA with count c and address a reads exactly the 64 - c words at a,
\* a + 1, ... (mod 4096) and prints, in order, the glyphs of the four 6-bit
\* codes of each word, most significant first, code 66 printing nothing; it
\* reports the address (a + 64 - c) mod 4096; A, B and memory are unchanged
C19_TypeAlpha ==
    [][(ExecCall /\ ~InList(d.pc, d.bpt) /\ CurOp = \o54)
        => LET n     == 64 - CurCount
               texts == SelectSeq(d'.tty, IsTa)
               reads == SelectSeq(d'.tty, IsReadTap)
           IN  /\ Len(texts) = 1
               /\ texts[1].args = Typed(d.mem, CurAddr, 0, n)
               /\ d.acs = TypeTaps
                    => /\ Len(reads) = n
                       /\ \A k \in 1..n : reads[k].args = << (CurAddr + k - 1) % 4096 >>
               /\ result' = Rc("next addr:     ", << (CurAddr + n) % 4096 >>)
               /\ d'.a = d.a /\ d'.b = d.b /\ d'.mem = d.mem]_vars

\* C19 witness: TA with count 74 at address 0010 has printed exactly
\* HELLO WORLD and reports 0014
C19_Witness ==
    /\ d.instruction_count = 1 /\ d._opcode = \o54 /\ d._count = \o74
    /\ result = Rc("next addr:     ", << \o0014 >>)
    /\ \E i \in 1..Len(d.tty) :
         /\ d.tty[i].kind = "TA"
         /\ d.tty[i].args = << "H", "E", "L", "L", "O", " ", "W", "O", "R", "L", "D" >>

\* memory mem with the first n words of the echoed codes stored from a on
RECURSIVE StoreTyped(_, _, _, _, _)
StoreTyped(mem, codes, a, k, n) ==
    IF k >= n THEN mem
    ELSE StoreTyped([mem EXCEPT ![(a + k) % 4096] =
                        Packed(codes[4 * k + 1].args[1], codes[4 * k + 2].args[1],
                               codes[4 * k + 3].args[1], codes[4 * k + 4].args[1])],
                    codes, a, k + 1, n)

\* C20: a Control-C typed during TI ends the instruction and the run (run
\* false, report "Control-C"); every word TI had completed, four mapped
\* characters packed most significant first, stays in memory, no other word
\* changes, and characters outside the table counted toward no word
C20_ControlC ==
    [][(ExecCall /\ ~InList(d.pc, d.bpt) /\ CurOp = \o63 /\ result'.kind = "Control-C")
        => LET codes == SelectSeq(d'.tty, IsEcho)
               n     == Len(codes) \div 4
           IN  /\ result' = Rc("Control-C", << >>)
               /\ d'.run = FALSE /\ mode' = "prompt"
               /\ n < 64 - CurCount
               /\ d'.mem = StoreTyped(d.mem, codes, CurAddr, 0, n)
               /\ d'._addr = (CurAddr + n) % 4096
               /\ d'.a = d.a /\ d'.b = d.b
               /\ instr_cnt' = instr_cnt]_vars

\* C20 witness: TI of two words to 7776 took H, E, L, L (the "~" between
\* rang the bell), stored that word, and was interrupted after the O
C20_Witness ==
    /\ mode = "prompt" /\ ~d.run /\ result.kind = "Control-C"
    /\ d._opcode = \o63 /\ d._count = \o76 /\ d._addr = \o7777
    /\ d.mem[\o7776] = Packed(\o30, \o25, \o34, \o34)
    /\ d.mem[\o7777] = Word(1, Packed(\o37, \o40, \o57, \o66))
    /\ Len(SelectSeq(d.tty, IsBell)) = 1
    /\ Len(SelectSeq(d.tty, IsEcho)) = 5

(***************************************************************************)
(* SpecStep: "step n" commands, one after the other, over a program that   *)
(* meets every kind of stop: HLT, divide by zero, an invalid opcode, a     *)
(* compare stop (on an operand, on a store, on an instruction fetch) and a *)
(* breakpoint.  The breakpoint and compare-stop lists are those an         *)
(* operator has set before.                                                *)
(***************************************************************************)
StepProgram ==
    (\o0000 :> Instr(\o10, \o00, \o0010))      \* CLA  [0010]
 @@ (\o0001 :> Instr(\o14, \o00, \o0011))      \* ADD  [0011]
 @@ (\o0002 :> Instr(\o00, \o00, \o0000))      \* HLT
 @@ (\o0003 :> Instr(\o24, \o00, \o0012))      \* DIV  [0012] (zero)
 @@ (\o0004 :> Instr(\o50, \o00, \o0000))      \* not implemented
 @@ (\o0005 :> Instr(\o30, \o00, \o0013))      \* STA  [0013]
 @@ (\o0006 :> Instr(\o44, \o00, \o0000))      \* JMP  0000
 @@ (\o0010 :> Word(0, 3))
 @@ (\o0011 :> Word(0, 4))
 @@ (\o0012 :> Word(0, 0))
 @@ (\o0013 :> Word(1, 1))

StepStarts == 0..6
StepBpts   == { << >>, << \o0001 >>, << \o0005 >>, << \o0002, \o0006 >> }
StepAcs    == { << >>, << \o0010 >>, << \o0013 >>, << \o0004 >> }
StepCounts == { << >>, << 1 >>, << 2 >>, << 3 >> }

InitStep ==
    /\ ShellInit
    /\ \E pc \in StepStarts, bpt \in StepBpts, acs \in StepAcs :
         d = [Machine(Image(StepProgram), pc, <<0, 0>>, <<0, 0>>)
                 EXCEPT !.bpt = bpt, !.acs = acs]

NextStep ==
    \/ \E args \in StepCounts : DoStep(args)
    \/ LoopIter(<< >>)

SpecStep == InitStep /\ [][NextStep]_vars

\* the reports that tell of a stop condition
StopReports ==
    { "HALTED at", "Divide by Zero Stop", "Invalid or Unknown OPCODE",
      "Breakpoint at", "No Tape in PTReader", "Unexpected PT character",
      "Control-C" }

\* C21: a Step n (n >= 1) returns after dispatching at least one and at most
\* n instructions, in whatever state it is issued (after HLT, an invalid
\* opcode, a divide by zero, a compare stop, a breakpoint), and dispatches
\* exactly n when no stop condition arises before the n-th.  While the Step
\* runs, instr_cnt is the number of instructions it has dispatched, it is
\* below n and every pass adds one to it; the first pass always dispatches;
\* the Step goes on only when the pass met no stop condition, and returns
\* before the n-th dispatch only when one arose.  From PC = 0 with CLA, ADD,
\* HLT in memory, the third pass of step 3 ends with PC = 3 and run false.
C21_StepCount ==
    [][/\ (mode = "prompt" /\ mode' = "running" /\ num_instr' # << >>)
           => instr_cnt' = 0 /\ num_instr'[1] >= 1 /\ d'.run
       /\ (ExecCall /\ num_instr # << >>)
           => LET n    == num_instr[1]
                  disp == d'.instruction_count - d.instruction_count
                  done == instr_cnt + disp
                  stop == result'.kind \in StopReports \/ TapReported(d')
              IN  /\ instr_cnt < n
                  /\ disp \in {0, 1}
                  /\ instr_cnt = 0 => disp = 1
                  /\ 1 <= done /\ done <= n
                  /\ mode' \in {"running", "prompt"}
                  /\ mode' = "running"
                       => ~stop /\ disp = 1 /\ instr_cnt' = done /\ done < n
                          /\ num_instr' = num_instr
                  /\ mode' = "prompt" => ~d'.run /\ (done = n \/ stop)
                  /\ ~stop => disp = 1
                  /\ (n = 3 /\ instr_cnt = 2 /\ d.pc = 2 /\ d.bpt = << >>
                        /\ d.acs = << >> /\ d.instruction_count = 2)
                       => d'.pc = 3 /\ ~d'.run /\ mode' = "prompt"
                          /\ d'.a = <<0, 7>>]_vars

\* C21 witness: step 3 from PC = 0 has run CLA, ADD, HLT
C21_Witness ==
    /\ mode = "prompt" /\ num_instr = << 3 >> /\ instr_cnt = 3
    /\ lines_read = 1 /\ d.instruction_count = 3
    /\ trace_pc = 2 /\ d.pc = 3 /\ ~d.run /\ d.a = <<0, 7>>
    /\ result = Rc("HALTED at", << 3 >>)

\* the digit a punched byte stands for
Digit(b) == IF b = 64 THEN 0 ELSE b

\* C22: the magnitude of every word RT stores is ((d1*64 + d2)*64 + d3)*64
\* + d4, d1..d4 being the four non-zero bytes after the word's sign byte,
\* byte 0x40 the digit 0 and bytes 0x01..0x3F their own value; the 0x00
\* bytes of the tape, wherever they are, change nothing: the same RT on the
\* tape without them stores the same words and ends the same way
C22_Magnitude ==
    [][RtCall
        => LET nb    == Punched(d.ptr[1])
               n     == Stored(d'._addr)
               b(k, i) == nb[5 * k + 1 + i]
               bare  == [Quiet(d) EXCEPT
                            !.ptr = << [@[1] EXCEPT !.data = nb, !.pos = 0] >>]
               r     == exec(bare, << >>)
           IN  /\ n <= 64 - CurCount
               /\ \A k \in 0..(n - 1) :
                    /\ \A i \in 1..4 : b(k, i) \in 1..64
                    /\ MagOf(d'.mem[(CurAddr + k) % 4096])
                         = ((Digit(b(k, 1)) * 64 + Digit(b(k, 2))) * 64
                              + Digit(b(k, 3))) * 64 + Digit(b(k, 4))
               /\ r.st.mem = d'.mem /\ r.st._addr = d'._addr
               /\ r.st.run = d'.run /\ r.rc = result'
               /\ (r.st.ptr = << >>) = (d'.ptr = << >>)]_vars

\* C22 witness: RT of two words has read 40 01 02 00 03 04 as +01020304
\* past the blank inside it, and then the word 00 00 40 40 40 40 40 as +0
C22_Witness ==
    /\ d.instruction_count = 1 /\ d._opcode = \o60 /\ d._count = \o76
    /\ d._addr = \o0102 /\ d.ptr # << >>
    /\ Len(d.ptr[1].data) >= 13
    /\ SubSeq(d.ptr[1].data, 1, 13) = << 64, 1, 2, 0, 3, 4, 0, 0, 64, 64, 64, 64, 64 >>
    /\ d.mem[\o0100] = Word(0, \o01020304)
    /\ d.mem[\o0101] = Word(0, 0)

(***************************************************************************)
(* SpecRun: the main program entered at any of its instructions, with or   *)
(* without a tape in the reader (an empty one, one of a single word, one   *)
(* with an invalid byte in its second word), with breakpoints or compare   *)
(* stops set; the operator steps, goes to the RT at 0020, attaches and     *)
(* detaches tapes and makes the divisor at 0013 non-zero.                  *)
(***************************************************************************)
RunStarts == (\o0000..\o0007) \cup (\o0020..\o0026) \cup { \o7777 }

RunReels ==
    { << >>,
      << 1, 64, 64, 1, 63 >>,
      << 64, 1, 2, 0, 3, 4, 1, 64, 65, 1, 1 >> }

\* <<breakpoints, compare stops>>
RunStops ==
    { << << >>, << >> >>,
      << << \o0002, \o0021 >>, << >> >>,
      << << >>, << \o0012, \o0020 >> >>,
      << << >>, << \o0014 >> >> }

InitRun ==
    /\ ShellInit
    /\ \E pc \in RunStarts, stops \in RunStops :
         LET m == [Machine(Image(MainProgram), pc, <<1, 5>>, <<0, \o14>>)
                      EXCEPT !.bpt = stops[1], !.acs = stops[2]]
         IN  \/ d = m
             \/ \E reel \in RunReels : d = do_attach(m, reel)

NextRun ==
    \/ DoStep(<< >>)
    \/ DoGo(<< \o0020 >>)
    \/ DoAttach(<< 1, 64, 64, 1, 63 >>)
    \/ DoDetach
    \/ DoDeposit(Arg0("13", \o13), Lit(TRUE, 2))
    \/ \E keys \in KeyScripts : LoopIter(keys)

SpecRun == InitRun /\ [][NextRun]_vars

\* exec, called on the machine as it is (run true or false), has printed
\* the message of RT about an invalid tape byte
BadByteReported(s) ==
    \E i \in 1..Len(s.tty) : s.tty[i].kind = "Unexpected PT character"

\* the cases in which exec may clear the run flag, told from the machine
\* before the call and from what the call reports
StopCase(r) ==
    \/ InList(d.pc, d.bpt) /\ r.rc.kind = "Breakpoint at"
    \/ /\ ~InList(d.pc, d.bpt)
       /\ \/ CurOp = \o00 /\ r.rc.kind = "HALTED at"
          \/ TapReported(r.st)
          \/ CurOp \in DivOps /\ r.rc.kind = "Divide by Zero Stop"
          \/ CurOp \notin _implemented_instructions
               /\ r.rc.kind = "Invalid or Unknown OPCODE"
          \/ CurOp = \o60 /\ d.ptr = << >> /\ r.rc.kind = "No Tape in PTReader"
          \/ CurOp = \o60 /\ d.ptr # << >> /\ BadByteReported(r.st)

\* C23: exec never turns the run flag from false to true; it turns it from
\* true to false only for HLT, at a breakpoint, on a read or write of a
\* compare-stop address, on a divide by zero, an invalid opcode, RT without
\* a tape, RT meeting an invalid byte; every other execution leaves the flag
\* as it was.  Outside exec the flag becomes true only when the run loop of
\* a Go or Step starts.
C23_RunFlag ==
    [][/\ ExecCall
           => \A keys \in KeyScripts :
                LET on  == exec([Quiet(d) EXCEPT !.run = TRUE], keys)
                    off == exec([Quiet(d) EXCEPT !.run = FALSE], keys)
                IN  /\ ~off.st.run
                    /\ ~on.st.run => StopCase(on)
       /\ (~d.run /\ d'.run)
           => /\ mode = "prompt" /\ mode' = "running"
              /\ lines_read' = lines_read + 1 /\ instr_cnt' = 0
       /\ (ExecCall /\ d'.run)
           => /\ d.run
              /\ \E keys \in KeyScripts : exec(Quiet(d), keys).st.run]_vars

\* C23 witness: RT has stopped the machine on an invalid tape byte
C23_Witness ==
    /\ mode = "prompt" /\ ~d.run /\ d._opcode = \o60
    /\ BadByteReported(d) /\ ~TapReported(d)
    /\ result.kind = "next addr:     "

\* the tape handle is absent or an open stream
HandleSound(s) == s.ptr = << >> \/ s.ptr[1].open

\* C24: an RT that meets the end of the tape leaves the reader without a
\* handle (the file closed, the handle gone), so the handle is always absent
\* or an open stream; the reader stays empty until an attach command, and an
\* RT run with the reader empty stops the CPU with "No Tape in PTReader",
\* run false, no memory word changed
C24_TapeGone ==
    [][/\ HandleSound(d) /\ HandleSound(d')
       /\ (RtCall /\ FirstBad(Punched(d.ptr[1])) = 0
                  /\ Len(Punched(d.ptr[1])) \div 5 < 64 - CurCount)
           => d'.ptr = << >>
       /\ (d.ptr = << >> /\ d'.ptr # << >>)
           => /\ mode = "prompt" /\ mode' = "prompt"
              /\ lines_read' = lines_read + 1
              /\ d'.ptr[1].pos = 0 /\ d'.mem = d.mem
       /\ (ExecCall /\ ~InList(d.pc, d.bpt) /\ CurOp = \o60 /\ d.ptr = << >>)
           => /\ result' = Rc("No Tape in PTReader", << >>)
              /\ ~d'.run /\ mode' = "prompt"
              /\ d'.mem = d.mem /\ d'.ptr = << >>
              /\ d'.instruction_count = d.instruction_count + 1]_vars

\* C24 witness: the RT at 0020 read -00000177 to 0014 and met the end of
\* the tape; the RT run after it, no tape attached since, has stopped the
\* CPU with "No Tape in PTReader"
C24_Witness ==
    /\ mode = "prompt" /\ ~d.run /\ d.ptr = << >>
    /\ result = Rc("No Tape in PTReader", << >>)
    /\ d.instruction_count = 2 /\ lines_read = 2
    /\ d.mem[\o0014] = Word(1, \o177)
    /\ d.mem[\o0015] = RandomImage[\o0015]

(***************************************************************************)
(* The breakpoint and compare-stop lists, checked under Spec               *)
(***************************************************************************)
\* every entry is an address of memory and no address is there twice
ProperList(lst) ==
    /\ \A i \in 1..Len(lst) : 0 <= lst[i] /\ lst[i] <= 4095
    /\ \A i, j \in 1..Len(lst) : lst[i] = lst[j] => i = j

\* the addresses of the compare stops the machine has reported
TapAddrs(s) ==
    { s.tty[i].args[1] :
        i \in { k \in 1..Len(s.tty) :
                  s.tty[k].kind \in { "Read Memory address Compare Stop @",
                                      "Write Memory address Compare Stop @" } } }

\* C25: whatever break, clear, acstop, aclear, go and step commands have
\* been given, the breakpoint list and the compare-stop list hold only
\* addresses in [0, 4095] and none twice (the breakpoint a run holds back is
\* off the list meanwhile); one clear (aclear) of an address on the list
\* takes it off altogether and leaves the others; a run stops at a
\* breakpoint or a compare stop only at an address that is on the list then;
\* a run changes the lists in no way but to hold back and put back the
\* breakpoint it started on
C25_StopLists ==
    [][/\ ProperList(d.bpt) /\ ProperList(d.acs)
       /\ ProperList(d'.bpt) /\ ProperList(d'.acs)
       /\ held_bpt # << >> => ~InList(held_bpt[1], d.bpt)
       /\ \A addr \in SetOf(d.bpt) :
            /\ ~InList(addr, do_clear(d, addr).bpt)
            /\ SetOf(do_clear(d, addr).bpt) = SetOf(d.bpt) \ {addr}
       /\ \A addr \in SetOf(d.acs) :
            /\ ~InList(addr, do_aclear(d, addr).acs)
            /\ SetOf(do_aclear(d, addr).acs) = SetOf(d.acs) \ {addr}
       /\ (ExecCall /\ result'.kind = "Breakpoint at")
            => InList(d.pc, d.bpt) /\ result'.args = << d.pc >>
       /\ mode = "running" => TapAddrs(d') \subseteq SetOf(d.acs)
       /\ (mode = "running" \/ mode' = "running")
            => /\ d'.acs = d.acs
               /\ SetOf(d'.bpt) \cup SetOf(held_bpt') = SetOf(d.bpt) \cup SetOf(held_bpt)]_vars

\* C25 witness: after three commands, the last a Go from 0000, the lists are
\* empty (a break and its clear, an acstop and its aclear leave them so) and
\* the run has passed 0001 and 0002 without a stop, to the HLT
C25_Witness ==
    /\ mode = "prompt" /\ lines_read = 3 /\ num_instr = << >>
    /\ d.bpt = << >> /\ d.acs = << >>
    /\ instr_cnt = 3 /\ d.instruction_count = 3 /\ trace_pc = 2
    /\ result = Rc("HALTED at", << 3 >>)
    /\ d.mem = Image(MainProgram) /\ d.ptr = << >> /\ d.b = <<0, 0>>

=============================================================================
